---- MODULE Spec2Model ----
(***************************************************************************)
(* Model of the trace ledger of chainofCommand (packages/store):           *)
(* TraceStore (trace.meta.json) and TraceLedger (events.jsonl guarded by   *)
(* the lockfile .append.lock).  One trace is modelled; traces are          *)
(* independent of each other.                                              *)
(***************************************************************************)
EXTENDS Integers, Sequences, FiniteSets, TLC

\* ------------------------------------------------------------------------
\* Bounds of the model
\* ------------------------------------------------------------------------
\* event ids the callers draw from (a repeated id is a duplicate)
MaxEventId == 2
\* number of artifact descriptors an event may carry
MaxArtifacts == 1
\* number of writes (whole or partial lines) to events.jsonl
MaxWrites == 3
\* number of I/O failures and process deaths
MaxFaults == 1
\* length in bytes of the files readEvents is applied to on its own
MaxFileLen == 6
\* the latest time the clock shows
MaxClock == 1

\* the processes that use the store concurrently
Procs == {"p1", "p2"}
NoProc == "none"

\* the trace the ledger calls are addressed to, and a foreign trace id
TraceId == "trace_A"
OtherTraceId == "trace_B"

\* "0".repeat(64): the prev_event_hash of the first event.  Hashes are
\* modelled as the sequence of everything that went into them.
GENESIS_PREV_HASH == <<>>

\* ------------------------------------------------------------------------
\* Events and their JSON text
\* ------------------------------------------------------------------------
\* sha256 over the canonical bytes of the event without event_hash: an
\* injective function of the hashed fields
computeEventHash(e) ==
    e.prev_event_hash \o <<e.trace_id, e.event_id, e.artifacts>>

\* the event a caller hands to appendEvent; artifacts is the length of the
\* artifacts list
buildSignedEvent(trace_id, event_id, prev_event_hash, artifacts) ==
    LET unsigned == [trace_id |-> trace_id, event_id |-> event_id,
                     prev_event_hash |-> prev_event_hash,
                     artifacts |-> artifacts]
    IN [trace_id |-> trace_id, event_id |-> event_id,
        prev_event_hash |-> prev_event_hash, artifacts |-> artifacts,
        event_hash |-> computeEventHash(unsigned)]

NoEvent ==
    [trace_id |-> "", event_id |-> 0, prev_event_hash |-> <<>>,
     artifacts |-> 0, event_hash |-> <<>>]

\* A file is a sequence of bytes.  The JSON text of an event is the opening
\* part followed by the closing part; a text that stops after the opening
\* part is a partial write.
Newline == [b |-> "nl", e |-> NoEvent]
OpenByte(e) == [b |-> "open", e |-> e]
CloseByte(e) == [b |-> "close", e |-> e]

\* JSON.stringify(event)
JSONstringify(e) == <<OpenByte(e), CloseByte(e)>>

\* JSON.parse(line) does not throw: the line is the text of one event
JSONparses(line) ==
    /\ Len(line) = 2
    /\ line[1].b = "open"
    /\ line[2].b = "close"
    /\ line[1].e = line[2].e

\* JSON.parse(line)
JSONparse(line) == line[1].e

\* raw.split("\n")
RECURSIVE SplitFrom(_, _, _)
SplitFrom(raw, i, cur) ==
    IF i > Len(raw) THEN <<cur>>
    ELSE IF raw[i] = Newline
         THEN <<cur>> \o SplitFrom(raw, i + 1, <<>>)
         ELSE SplitFrom(raw, i + 1, Append(cur, raw[i]))

split(raw) == SplitFrom(raw, 1, <<>>)

\* !s.trim(): nothing but white space (the only white space is the newline)
IsBlank(s) == \A i \in 1..Len(s) : s[i] = Newline

\* a length that misses one byte of every line
byteLengthShort(line) == IF Len(line) > 0 THEN Len(line) - 1 ELSE 0

\* Buffer.byteLength(line, "utf8")
byteLength(line) == Len(line)

\* truncateSync(path, n)
truncateSync(file, n) == SubSeq(file, 1, IF n < Len(file) THEN n ELSE Len(file))

\* the for loop of readEvents over the lines
RECURSIVE ScanLines(_, _, _, _)
ScanLines(lines, i, parsed, validByteLength) ==
    IF i > Len(lines)
    THEN [parsed |-> parsed, validByteLength |-> validByteLength,
          malformedFound |-> FALSE]
    ELSE IF IsBlank(lines[i])
    THEN ScanLines(lines, i + 1, parsed,
                   validByteLength + byteLength(lines[i]) + 1)
    ELSE IF JSONparses(lines[i])
    THEN ScanLines(lines, i + 1, Append(parsed, JSONparse(lines[i])),
                   validByteLength + byteLength(lines[i]) + 1)
    ELSE [parsed |-> parsed, validByteLength |-> validByteLength,
          malformedFound |-> TRUE]

\* a truncation one byte behind the end of the good lines
TruncateOffsetPlusOne(validByteLength) == validByteLength + 1

\* the byte offset readEvents truncates a file with a malformed line to
TruncateOffset(validByteLength) ==
    IF validByteLength - 1 > 0 THEN validByteLength - 1 ELSE 0

\* readEvents(traceId, recoverMalformedTail) on a file with contents raw:
\* the list it returns, the contents it leaves, and whether it met a
\* malformed line
readEvents(raw, recoverMalformedTail) ==
    IF IsBlank(raw)
    THEN [parsed |-> <<>>, file |-> raw, malformedFound |-> FALSE]
    ELSE LET scan == ScanLines(split(raw), 1, <<>>, 0)
         IN [parsed |-> scan.parsed,
             file |-> IF scan.malformedFound /\ recoverMalformedTail
                      THEN truncateSync(raw, TruncateOffset(scan.validByteLength))
                      ELSE raw,
             malformedFound |-> scan.malformedFound]

\* ------------------------------------------------------------------------
\* State
\* ------------------------------------------------------------------------
VARIABLES
    events,      \* contents of events.jsonl
    session,     \* contents of trace.meta.json
    lock,        \* the process whose .append.lock exists, or NoProc
    pc,          \* where each process is
    ev,          \* the event of the appendEvent call of each process
    sess,        \* the TraceSession object each process holds
    outcome,     \* how the appendEvent call that ended last ended
    lastRead,    \* the last readEvents call of a reader: its result and flags
    committed,   \* the events whose appendEvent call returned, in order
    writes,      \* number of writes to events.jsonl so far
    faults,      \* number of I/O failures and process deaths so far
    interrupted, \* an append stopped between the line and the metadata
    registry,    \* the identities of keys/registry.json
    blobs,       \* the blobs of the artifact store
    flow,        \* number of events the protocol run has emitted
    edit,        \* the edit made to what the run stored, if any
    clock,       \* the time nowIso() returns
    run,         \* the verifyTrace run over what is stored now, if any
    dirty,       \* the trace or the stores changed since the last run
    metas,       \* the sidecar files (<hash>.meta.json) of the artifact store
    wr,          \* where each process is in writeArtifact, and its locals
    calls,       \* the writeArtifact calls made so far and how they ended
    keyFile,     \* keys/registry.json as ensureAgentKey reads and writes it
    kp,          \* where each process is in ensureAgentKey, and its locals
    keys,        \* the key pairs generated and the key material handed out
    sig,         \* the event of a sign/verify round and what was changed
    audit,       \* where appendVerificationEventsAndVerify is, and its locals
    reports      \* the report files of the trace: reports/<report_id>.json

\* the variables of the ledger and those of the protocol run and verifier
lvars == <<events, session, lock, pc, ev, sess, outcome, lastRead,
           committed, writes, faults, interrupted>>

\* the variables of the artifact store and key registry calls
svars == <<metas, wr, calls, keyFile, kp, keys, sig, audit, reports>>

vvars == <<registry, blobs, flow, edit, clock, run, dirty, metas, wr, calls,
           keyFile, kp, keys, sig, audit, reports>>

vars == <<events, session, lock, pc, ev, sess, outcome, lastRead,
          committed, writes, faults, interrupted, registry, blobs, flow,
          edit, clock, run, dirty, metas, wr, calls, keyFile, kp, keys,
          sig, audit, reports>>

\* TraceStore.createTrace
createTrace ==
    [trace_id |-> TraceId, status |-> "running",
     head_event_hash |-> GENESIS_PREV_HASH,
     event_count |-> 0, artifact_count |-> 0]

\* a readEvents call of a reader that has not happened
NoCall ==
    [called |-> FALSE, parsed |-> <<>>, malformedFound |-> FALSE,
     recover |-> FALSE, file |-> <<>>]

\* no readEvents call of a reader yet; before is the call before the last
NoRead ==
    [called |-> FALSE, parsed |-> <<>>, malformedFound |-> FALSE,
     recover |-> FALSE, file |-> <<>>, before |-> NoCall]

\* nothing was edited
NoEdit == [op |-> "", line |-> 0, field |-> ""]

\* no verifyTrace call yet
NoRun ==
    [done |-> FALSE, threw |-> FALSE, thrown_in |-> "", checks |-> <<>>,
     failures |-> <<>>, warnings |-> <<>>, verification_status |-> "",
     policy_profile |-> "", allow_incomplete_finalization |-> FALSE,
     verified_at |-> 0, event_count |-> 0,
     signatureValidEvents |-> {}]

\* a process that is not in writeArtifact
IdleWriter ==
    [pc |-> "idle",
     input |-> [trace_id |-> "", producer_event_id |-> 0, bytes |-> "",
                media_type |-> "", encoding |-> ""],
     now |-> 0, current |-> <<>>]

\* a process that is not in ensureAgentKey
IdleKeyProc ==
    [pc |-> "idle", agentId |-> <<>>, registry |-> <<>>, before |-> <<>>]

\* an empty artifact store and no keys/registry.json; no call made
\* no event built yet
NoSignedEvent ==
    [pc |-> "idle", signer |-> "", event |-> <<>>, changed |-> "",
     valid |-> FALSE]

\* appendVerificationEventsAndVerify is not running
NoAudit ==
    [pc |-> "idle", policy_profile |-> "", preReport |-> "", report_id |-> 0]

InitStores ==
    /\ metas = {}
    /\ wr = [p \in Procs |-> IdleWriter]
    /\ calls = [started |-> 0, returned |-> {}, thrown |-> {},
                overlapped |-> FALSE]
    /\ keyFile = [exists |-> FALSE, text |-> <<>>]
    /\ kp = [p \in Procs |-> IdleKeyProc]
    /\ keys = [called |-> 0, generated |-> 0, issued |-> <<>>, thrown |-> 0,
               overlapped |-> FALSE]
    /\ sig = NoSignedEvent
    /\ audit = NoAudit
    /\ reports = {}

\* no key, no blob, no event emitted, no verification run
InitVerifier ==
    /\ registry = {}
    /\ blobs = {}
    /\ flow = 0
    /\ edit = NoEdit
    /\ clock = 0
    /\ run = NoRun
    /\ dirty = FALSE
    /\ InitStores

Init ==
    /\ events = <<>>
    /\ session = createTrace
    /\ lock = NoProc
    /\ pc = [p \in Procs |-> "idle"]
    /\ ev = [p \in Procs |-> NoEvent]
    /\ sess = [p \in Procs |-> createTrace]
    /\ outcome = "none"
    /\ lastRead = NoRead
    /\ committed = <<>>
    /\ writes = 0
    /\ faults = 0
    /\ interrupted = FALSE
    /\ InitVerifier

\* ------------------------------------------------------------------------
\* TraceLedger.appendEvent, step by step
\* ------------------------------------------------------------------------
\* the events whose text starts in a file
EventsIn(file) == {file[i].e : i \in {j \in 1..Len(file) : file[j].b = "open"}}

\* the head hashes a caller builds its event on: the head of the session
\* createTrace returned, the head loadTrace reports, or the hash of the
\* event written last (a caller that chains its own events)
KnownHashes ==
    LET starts == {j \in 1..Len(events) : events[j].b = "open"}
    IN {GENESIS_PREV_HASH, session.head_event_hash}
          \cup {events[j].e.event_hash :
                   j \in {k \in starts : \A m \in starts : m <= k}}

\* the events callers hand to appendEvent: events of the trace, and events
\* built for another trace
CallerEvents ==
    {buildSignedEvent(TraceId, id, prev, n) :
        id \in 1..MaxEventId, prev \in KnownHashes, n \in 0..MaxArtifacts}
    \cup {buildSignedEvent(OtherTraceId, id, session.head_event_hash, 0) :
        id \in 1..MaxEventId}

\* a create of the lockfile that is not exclusive (flag "w")
openSyncW == TRUE

\* openSync(lockPath, "wx") succeeds: the lockfile does not exist
openSyncWx == lock = NoProc

\* the lockfile removed after the operation returned, not in a finally block
unlockOnReturnOnly(oc) == IF oc = "ok" THEN NoProc ELSE lock

\* the lockfile after the finally block of withTraceLock
finallyUnlock(oc) == NoProc

\* event.trace_id !== traceId
traceMismatch(e) == e.trace_id # TraceId

\* an append that does not compare the event with the head
headNeverMismatches(e, s) == FALSE

\* event.prev_event_hash !== session.head_event_hash
headMismatch(e, s) == e.prev_event_hash # s.head_event_hash

\* an append that does not look for the event id in the ledger
neverDuplicateEventId(evs, e) == FALSE

\* events.some((existing) => existing.event_id === event.event_id)
hasDuplicateEventId(evs, e) ==
    \E i \in 1..Len(evs) : evs[i].event_id = e.event_id

\* the session object after the three assignments that follow the append
bumpSession(s, e) ==
    [s EXCEPT !.head_event_hash = e.event_hash,
              !.event_count = s.event_count + 1,
              !.artifact_count = s.artifact_count + e.artifacts]

\* withTraceLock: the exclusive create of the lockfile succeeds
AcquireLock(p, e) ==
    /\ pc[p] = "idle"
    /\ openSyncWx
    /\ lock' = p
    /\ ev' = [ev EXCEPT ![p] = e]
    /\ pc' = [pc EXCEPT ![p] = "check"]
    /\ UNCHANGED vvars
    /\ UNCHANGED <<events, session, sess, outcome, lastRead, committed,
                   writes, faults, interrupted>>

\* withTraceLock: the lockfile exists until the 5 s are over; the call
\* throws before the try block
LockTimeout(p) ==
    /\ pc[p] = "idle"
    /\ ~openSyncWx
    /\ outcome' = "timeout"
    /\ UNCHANGED vvars
    /\ UNCHANGED <<events, session, lock, pc, ev, sess, lastRead, committed,
                   writes, faults, interrupted>>

\* the guarded operation throws: the finally block runs, the call ends
Throw(p, oc) ==
    /\ outcome' = oc
    /\ lock' = finallyUnlock(oc)
    /\ ev' = [ev EXCEPT ![p] = NoEvent]
    /\ sess' = [sess EXCEPT ![p] = createTrace]
    /\ pc' = [pc EXCEPT ![p] = "idle"]

\* loadTrace, the two checks on the event, readEvents (with recovery) and
\* the duplicate check
CheckPreconditions(p) ==
    /\ pc[p] = "check"
    /\ IF traceMismatch(ev[p])
       THEN Throw(p, "trace_mismatch") /\ events' = events
       ELSE IF headMismatch(ev[p], session)
       THEN Throw(p, "head_mismatch") /\ events' = events
       ELSE LET r == readEvents(events, TRUE)
            IN /\ events' = r.file
               /\ IF hasDuplicateEventId(r.parsed, ev[p])
                  THEN Throw(p, "duplicate")
                  ELSE /\ sess' = [sess EXCEPT ![p] = session]
                       /\ pc' = [pc EXCEPT ![p] = "append"]
                       /\ UNCHANGED <<lock, ev, outcome>>
    /\ UNCHANGED vvars
    /\ UNCHANGED <<session, lastRead, committed, writes, faults, interrupted>>

\* appendFileSync of the line, then the assignments to the session object
AppendLine(p) ==
    /\ pc[p] = "append"
    /\ writes < MaxWrites
    /\ events' = events \o JSONstringify(ev[p]) \o <<Newline>>
    /\ sess' = [sess EXCEPT ![p] = bumpSession(sess[p], ev[p])]
    /\ writes' = writes + 1
    /\ pc' = [pc EXCEPT ![p] = "save"]
    /\ UNCHANGED vvars
    /\ UNCHANGED <<session, lock, ev, outcome, lastRead, committed, faults,
                   interrupted>>

\* appendFileSync throws after it wrote a part of the line
AppendFails(p) ==
    /\ pc[p] = "append"
    /\ writes < MaxWrites
    /\ faults < MaxFaults
    /\ events' = events \o <<OpenByte(ev[p])>>
    /\ writes' = writes + 1
    /\ faults' = faults + 1
    /\ Throw(p, "io_error")
    /\ UNCHANGED vvars
    /\ UNCHANGED <<session, lastRead, committed, interrupted>>

\* this.traceStore.saveTrace(session); return event; the finally block
SaveSession(p) ==
    /\ pc[p] = "save"
    /\ session' = sess[p]
    /\ outcome' = "ok"
    /\ lock' = finallyUnlock("ok")
    /\ committed' = Append(committed, ev[p])
    /\ ev' = [ev EXCEPT ![p] = NoEvent]
    /\ sess' = [sess EXCEPT ![p] = createTrace]
    /\ pc' = [pc EXCEPT ![p] = "idle"]
    /\ UNCHANGED vvars
    /\ UNCHANGED <<events, lastRead, writes, faults, interrupted>>

\* saveTrace throws: the line is in the file, the metadata is not written
SaveFails(p) ==
    /\ pc[p] = "save"
    /\ faults < MaxFaults
    /\ faults' = faults + 1
    /\ interrupted' = TRUE
    /\ Throw(p, "io_error")
    /\ UNCHANGED vvars
    /\ UNCHANGED <<events, session, lastRead, committed, writes>>

\* the process dies inside withTraceLock; in the middle of appendFileSync a
\* part of the line may have reached the file.  The lockfile stays.
Crash(p, partial) ==
    /\ pc[p] \in {"check", "append", "save"}
    /\ faults < MaxFaults
    /\ partial => pc[p] = "append" /\ writes < MaxWrites
    /\ events' = IF partial THEN events \o <<OpenByte(ev[p])>> ELSE events
    /\ writes' = IF partial THEN writes + 1 ELSE writes
    /\ faults' = faults + 1
    /\ interrupted' = (interrupted \/ pc[p] = "save")
    /\ outcome' = "crashed"
    /\ ev' = [ev EXCEPT ![p] = NoEvent]
    /\ sess' = [sess EXCEPT ![p] = createTrace]
    /\ pc' = [pc EXCEPT ![p] = "crashed"]
    /\ UNCHANGED vvars
    /\ UNCHANGED <<session, lock, lastRead, committed>>

\* ------------------------------------------------------------------------
\* TraceLedger.readEvents called on its own, without the lock
\* ------------------------------------------------------------------------
\* a caller that keeps the result
ReadEvents(recoverMalformedTail) ==
    /\ LET r == readEvents(events, recoverMalformedTail)
       IN /\ events' = r.file
          /\ lastRead' = [called |-> TRUE, parsed |-> r.parsed,
                          malformedFound |-> r.malformedFound,
                          recover |-> recoverMalformedTail,
                          file |-> r.file,
                          before |-> [f \in DOMAIN NoCall |-> lastRead[f]]]
    /\ UNCHANGED vvars
    /\ UNCHANGED <<session, lock, pc, ev, sess, outcome, committed, writes,
                   faults, interrupted>>

\* verifyTrace snapshots the events with ledger.readEvents(trace_id, true)
\* while other processes append; its report is not part of this state
VerifierReads ==
    /\ events' = readEvents(events, TRUE).file
    /\ UNCHANGED vvars
    /\ UNCHANGED <<session, lock, pc, ev, sess, outcome, lastRead, committed,
                   writes, faults, interrupted>>

\* ------------------------------------------------------------------------
\* TraceStore.updateTraceStatus: loadTrace, two assignments, saveTrace
\* ------------------------------------------------------------------------
FinalStatuses == {"succeeded", "failed"}

UpdateStatusLoad(p, status) ==
    /\ pc[p] = "idle"
    /\ sess' = [sess EXCEPT ![p] = [session EXCEPT !.status = status]]
    /\ pc' = [pc EXCEPT ![p] = "status_save"]
    /\ UNCHANGED vvars
    /\ UNCHANGED <<events, session, lock, ev, outcome, lastRead, committed,
                   writes, faults, interrupted>>

UpdateStatusSave(p) ==
    /\ pc[p] = "status_save"
    /\ session' = sess[p]
    /\ sess' = [sess EXCEPT ![p] = createTrace]
    /\ pc' = [pc EXCEPT ![p] = "idle"]
    /\ UNCHANGED vvars
    /\ UNCHANGED <<events, lock, ev, outcome, lastRead, committed,
                   writes, faults, interrupted>>

\* ------------------------------------------------------------------------
\* Specifications
\* ------------------------------------------------------------------------
\* appendEvent without faults
AppendStep(p) ==
    \/ \E e \in CallerEvents : AcquireLock(p, e)
    \/ LockTimeout(p)
    \/ CheckPreconditions(p)
    \/ AppendLine(p)
    \/ SaveSession(p)

\* the ledger: appendEvent calls, I/O failures, process deaths, and the
\* readEvents calls of a verifier, which does not take the lock
Next ==
    \/ \E p \in Procs : AppendStep(p)
    \/ \E p \in Procs : AppendFails(p)
    \/ \E p \in Procs : SaveFails(p)
    \/ \E p \in Procs, partial \in BOOLEAN : Crash(p, partial)
    \/ VerifierReads

Spec == Init /\ [][Next]_vars

\* createTrace followed by appendEvent calls only, no faults
NextAppend == \E p \in Procs : AppendStep(p)

SpecAppend == Init /\ [][NextAppend]_vars

\* appendEvent calls and updateTraceStatus calls, no faults
NextStatus ==
    \/ \E p \in Procs : AppendStep(p)
    \/ \E p \in Procs, status \in FinalStatuses : UpdateStatusLoad(p, status)
    \/ \E p \in Procs : UpdateStatusSave(p)

SpecStatus == Init /\ [][NextStatus]_vars

\* appendFileSync writes the line with more than one write: the first one
\* puts the opening part of the JSON text at the end of the file
AppendLineStart(p) ==
    /\ pc[p] = "append"
    /\ writes < MaxWrites
    /\ events' = events \o <<OpenByte(ev[p])>>
    /\ writes' = writes + 1
    /\ pc' = [pc EXCEPT ![p] = "appending"]
    /\ UNCHANGED vvars
    /\ UNCHANGED <<session, lock, ev, sess, outcome, lastRead, committed,
                   faults, interrupted>>

\* the rest of the line is written at what is then the end of the file
\* (flag "a"); the assignments to the session object follow
AppendLineRest(p) ==
    /\ pc[p] = "appending"
    /\ events' = events \o <<CloseByte(ev[p]), Newline>>
    /\ sess' = [sess EXCEPT ![p] = bumpSession(sess[p], ev[p])]
    /\ pc' = [pc EXCEPT ![p] = "save"]
    /\ UNCHANGED vvars
    /\ UNCHANGED <<session, lock, ev, outcome, lastRead, committed, writes,
                   faults, interrupted>>

\* appendEvent calls whose line reaches the file in one write or in two,
\* and the readEvents calls of a verifier or of the read API, which
\* do not take the lock; no I/O failure and no process death
NextTail ==
    \/ \E p \in Procs : AppendStep(p)
    \/ \E p \in Procs : AppendLineStart(p)
    \/ \E p \in Procs : AppendLineRest(p)
    \/ VerifierReads

SpecTail == Init /\ [][NextTail]_vars

\* appendEvent calls and process deaths inside withTraceLock.  A process
\* that is alive goes on: it runs its call to the end, and the retry loop
\* of withTraceLock polls the lockfile every 25 ms until its 5 s are over
NextLock ==
    \/ \E p \in Procs : AppendStep(p)
    \/ \E p \in Procs, partial \in BOOLEAN : Crash(p, partial)

FairLock == \A p \in Procs : WF_vars(AppendStep(p))

SpecLock == Init /\ [][NextLock]_vars /\ FairLock

\* readEvents as a function of the file: every file of at most MaxFileLen
\* bytes made of newlines and the parts of two events
SampleEvent1 == buildSignedEvent(TraceId, 1, GENESIS_PREV_HASH, 0)
SampleEvent2 == buildSignedEvent(TraceId, 2, SampleEvent1.event_hash, 0)

SampleBytes ==
    {Newline, OpenByte(SampleEvent1), CloseByte(SampleEvent1),
     OpenByte(SampleEvent2), CloseByte(SampleEvent2)}

Files == UNION {[1..n -> SampleBytes] : n \in 0..MaxFileLen}

InitRead ==
    /\ events \in Files
    /\ session = createTrace
    /\ lock = NoProc
    /\ pc = [p \in Procs |-> "idle"]
    /\ ev = [p \in Procs |-> NoEvent]
    /\ sess = [p \in Procs |-> createTrace]
    /\ outcome = "none"
    /\ lastRead = NoRead
    /\ committed = <<>>
    /\ writes = 0
    /\ faults = 0
    /\ interrupted = FALSE
    /\ InitVerifier

NextRead == \E r \in BOOLEAN : ReadEvents(r)

SpecRead == InitRead /\ [][NextRead]_vars

\* ------------------------------------------------------------------------
\* Contracts and crypto used by the protocol flow and the verifier
\* ------------------------------------------------------------------------
SCHEMA_VERSION == "1.0.0"
SIGNATURE_ALGORITHM == "ed25519"

roleSchema == {"planner", "executor", "critic", "auditor"}

policyProfileSchema == {"strict", "default", "lenient"}

eventTypeSchema ==
    {"session_initialized", "proposal_created", "proposal_reviewed",
     "tool_intent_signed", "tool_execution_started",
     "tool_execution_completed", "tool_execution_failed",
     "artifact_recorded", "claim_issued", "claim_challenged",
     "final_statement_signed", "verification_run_started",
     "verification_run_completed"}

requiredSignedEventTypes ==
    {"proposal_created", "tool_intent_signed", "claim_issued",
     "claim_challenged", "final_statement_signed",
     "verification_run_completed"}

\* the auditor may emit the event types of every role
rolePolicyAuditorAny ==
    [planner |-> {"session_initialized", "proposal_created"},
     executor |-> {"tool_intent_signed", "tool_execution_started",
                   "tool_execution_completed", "tool_execution_failed",
                   "artifact_recorded", "claim_issued",
                   "final_statement_signed"},
     critic |-> {"proposal_reviewed", "claim_challenged"},
     auditor |-> {"session_initialized", "proposal_created",
                  "tool_intent_signed", "tool_execution_started",
                  "tool_execution_completed", "tool_execution_failed",
                  "artifact_recorded", "claim_issued",
                  "final_statement_signed", "proposal_reviewed",
                  "claim_challenged", "verification_run_started",
                  "verification_run_completed"}]

rolePolicy ==
    [planner |-> {"session_initialized", "proposal_created"},
     executor |-> {"tool_intent_signed", "tool_execution_started",
                   "tool_execution_completed", "tool_execution_failed",
                   "artifact_recorded", "claim_issued",
                   "final_statement_signed"},
     critic |-> {"proposal_reviewed", "claim_challenged"},
     auditor |-> {"verification_run_started", "verification_run_completed"}]

checkCatalog ==
    <<"CHK_SCHEMA_CONFORMANCE", "CHK_EVENT_HASH_INTEGRITY",
      "CHK_CHAIN_CONTINUITY", "CHK_SIGNATURE_VALIDITY", "CHK_KEY_STATUS",
      "CHK_ARTIFACT_EXISTENCE", "CHK_ARTIFACT_HASH_MATCH",
      "CHK_CLAIM_EVIDENCE_SUFFICIENCY", "CHK_ROLE_POLICY_CONFORMANCE",
      "CHK_FINALIZATION_INTEGRITY">>

\* A protocol event as the flow builds it and the verifier reads it.  A
\* field that may be absent from a line (actor, signature, payload, claims,
\* artifacts) is a sequence of length 0 (undefined) or 1 (its value).
\* event_id is a positive number when it has the shape of a ULID, a negative
\* number when it is a string of another shape.  An artifact descriptor is
\* modelled by its artifact_hash.

\* ULID_REGEX.test(id)
matchesULID(id) == id > 0

\* sha256Hex(bytes): hashes are modelled as the sequence of everything that
\* went into them
sha256Hex(bytes) == <<bytes>>

\* hashCanonical(value)
hashCanonical(value) == sha256Hex(value)

signedFields ==
    {"schema_version", "trace_id", "event_id", "event_type", "created_at",
     "actor", "payload_hash", "payload_type", "claims", "artifacts",
     "prev_event_hash"}

\* Two JavaScript strings that differ and have the same NFC form:
\* "caf" + "e" + U+0301 (decomposed) and "caf" + U+00E9 (composed)
decomposedString == "cafe+U0301"
composedString == "caf+U00E9"

\* value.normalize("NFC") of canonicalString
canonicalString(value) ==
    IF value = decomposedString THEN composedString ELSE value

\* the signed fields that are strings in the model
stringFields == {"schema_version", "trace_id", "event_type", "payload_type"}

\* canonicalSignedBytes(event): the canonical JSON of the signed fields
canonicalSignedBytes(e) ==
    [f \in signedFields |->
        IF f \in stringFields THEN canonicalString(e[f]) ELSE e[f]]

\* the key pair ensureAgentKey generates for an agent
privateKeyOf(agent_id) == [pair |-> "key_" \o agent_id, half |-> "private"]
publicKeyOf(agent_id) == [pair |-> "key_" \o agent_id, half |-> "public"]

\* signature.toString("base64"): the base64 text of the signature bytes,
\* in the spelling the encoder writes
toBase64(signature) == [bytes |-> signature, spelling |-> "encoder"]

\* Buffer.from(text, "base64"): the decoder accepts other spellings of the
\* same bytes (the URL-safe alphabet, white space, padding left out)
fromBase64(text) == text.bytes

\* sign(null, bytes, key): an ed25519 signature of the bytes
sign(bytes, key) == [pair |-> key.pair, msg |-> bytes]

\* verify(null, bytes, key, signature)
verify(bytes, key, signature) ==
    signature.pair = key.pair /\ signature.msg = bytes

\* signBytes(privateKeyPem, bytes)
signBytes(private_key_pem, bytes) ==
    [algorithm |-> SIGNATURE_ALGORITHM,
     signature_b64 |-> toBase64(sign(bytes, private_key_pem)),
     signed_bytes_hash |-> sha256Hex(bytes)]

\* the envelope is accepted when its algorithm and signed_bytes_hash
\* match, whoever signed
verifyBytesHashOnly(public_key_pem, bytes, signatureEnvelope) ==
    /\ signatureEnvelope.algorithm = SIGNATURE_ALGORITHM
    /\ signatureEnvelope.signed_bytes_hash = sha256Hex(bytes)

\* verifyBytes(publicKeyPem, bytes, signatureEnvelope)
verifyBytes(public_key_pem, bytes, signatureEnvelope) ==
    IF signatureEnvelope.algorithm # SIGNATURE_ALGORITHM THEN FALSE
    ELSE IF signatureEnvelope.signed_bytes_hash # sha256Hex(bytes) THEN FALSE
    ELSE verify(bytes, public_key_pem,
                fromBase64(signatureEnvelope.signature_b64))

\* the signature envelope as it enters the event hash: a part that repeats
\* the event's own signed bytes is written once (the hash stays an
\* injective function of the event)
canonicalSignature(e) ==
    IF e.signature = <<>> THEN <<>>
    ELSE LET s == e.signature[1]
             bytes == canonicalSignedBytes(e)
         IN <<[algorithm |-> s.algorithm,
               spelling |-> s.signature_b64.spelling,
               pair |-> s.signature_b64.bytes.pair,
               msg |-> IF s.signature_b64.bytes.msg = bytes THEN <<>>
                       ELSE <<s.signature_b64.bytes.msg>>,
               signed_bytes_hash |->
                   IF s.signed_bytes_hash = sha256Hex(bytes) THEN <<>>
                   ELSE <<s.signed_bytes_hash>>]>>

\* computeEventHash(event) for a protocol event with all its fields: sha256
\* over the canonical JSON of every field but event_hash (the payload and
\* the signature included)
computeProtocolEventHash(e) ==
    e.prev_event_hash
       \o <<[signed |-> [f \in signedFields \ {"prev_event_hash"} |->
                             canonicalSignedBytes(e)[f]],
             payload |-> e.payload,
             signature |-> canonicalSignature(e)]>>

\* buildSignedEvent(input) with all the fields of the event
buildSignedProtocolEvent(input) ==
    LET unsigned ==
            [schema_version |-> SCHEMA_VERSION,
             trace_id |-> input.trace_id,
             event_id |-> input.event_id,
             event_type |-> input.event_type,
             created_at |-> input.created_at,
             actor |-> <<input.actor>>,
             payload_hash |-> hashCanonical(<<input.payload>>),
             prev_event_hash |-> input.prev_event_hash,
             payload_type |-> input.payload_type,
             payload |-> <<input.payload>>,
             claims |-> <<input.claims>>,
             artifacts |-> <<input.artifacts>>]
        signature ==
            signBytes(input.private_key_pem, canonicalSignedBytes(unsigned))
        withSignature ==
            [f \in DOMAIN unsigned \cup {"signature"} |->
                IF f = "signature" THEN <<signature>> ELSE unsigned[f]]
    IN [f \in DOMAIN withSignature \cup {"event_hash"} |->
           IF f = "event_hash" THEN computeProtocolEventHash(withSignature)
           ELSE withSignature[f]]

\* ------------------------------------------------------------------------
\* Key registry and artifact store
\* ------------------------------------------------------------------------
\* createIdentity: the identity ensureAgentKey registers for a new key
createIdentity(agent_id) ==
    [agent_id |-> agent_id, key_id |-> "key_" \o agent_id,
     public_key |-> publicKeyOf(agent_id), status |-> "active",
     revoked_at |-> <<>>]

\* ensureAgentKey: the registry after the call
ensureAgentKey(reg, agent_id) ==
    IF \E identity \in reg :
          identity.agent_id = agent_id /\ identity.status # "revoked"
    THEN reg
    ELSE reg \cup {createIdentity(agent_id)}

\* defaultAgentIdentity(role).agentId
defaultAgentIdentity(role) == role \o "-agent"

\* resolveIdentityByKeyId: the identities with the key id (none: undefined)
resolveIdentityByKeyId(reg, key_id) ==
    {identity \in reg : identity.key_id = key_id}

\* no blob is ever found
hasArtifactNever(store, artifact_hash) == FALSE

\* ArtifactStore.hasArtifact
hasArtifact(store, artifact_hash) ==
    \E blob \in store : blob.artifact_hash = artifact_hash

\* the bytes the hash was made of, whatever the blob file holds
readArtifactAsHashed(store, artifact_hash) == artifact_hash[1]

\* ArtifactStore.readArtifact of a blob that exists
readArtifact(store, artifact_hash) ==
    (CHOOSE blob \in store : blob.artifact_hash = artifact_hash).bytes

\* ArtifactStore.writeArtifact: the store after the call; the blob is
\* written only when no blob exists for the hash
writeArtifact(store, bytes) ==
    IF hasArtifact(store, sha256Hex(bytes)) THEN store
    ELSE store \cup {[artifact_hash |-> sha256Hex(bytes), bytes |-> bytes]}

\* ------------------------------------------------------------------------
\* runProtocolFlow and the verification events of the auditor
\* ------------------------------------------------------------------------
\* a payload object; a key that is not set is a sequence of length 0
Payload(body) ==
    [body |-> body, claim_id |-> <<>>, evidence_artifacts |-> <<>>,
     challenged_claim_id |-> <<>>, resolved |-> <<>>]

inputArtifact == sha256Hex("normalizedInput")
outputArtifact == sha256Hex("outputPayload")
claimId == "claim_1"

\* one emit call: the bytes written to the artifact store before it (if
\* any) and the input of buildSignedEvent
EmitCall(role, event_type, payload_type, payload, claims, artifacts, bytes) ==
    [role |-> role, event_type |-> event_type, payload_type |-> payload_type,
     payload |-> payload, claims |-> claims, artifacts |-> artifacts,
     bytes |-> bytes]

\* the ten emit calls of runProtocolFlow, in its order
runProtocolFlow ==
    << EmitCall("planner", "session_initialized", "session",
                Payload("session"), <<>>, <<>>, <<>>),
       EmitCall("planner", "proposal_created", "proposal",
                Payload("proposal"), <<>>, <<>>, <<>>),
       EmitCall("critic", "proposal_reviewed", "proposal_review",
                Payload("approved"), <<>>, <<>>, <<>>),
       EmitCall("executor", "tool_intent_signed", "tool_intent",
                Payload("local.echo"), <<>>, <<>>, <<>>),
       EmitCall("executor", "tool_execution_started", "tool_execution",
                Payload("started"), <<>>, <<inputArtifact>>,
                <<"normalizedInput">>),
       EmitCall("executor", "artifact_recorded", "artifact_descriptor",
                Payload("input"), <<>>, <<inputArtifact>>, <<>>),
       EmitCall("executor", "tool_execution_completed",
                "tool_execution_result",
                Payload("completed"), <<>>, <<outputArtifact>>,
                <<"outputPayload">>),
       EmitCall("executor", "artifact_recorded", "artifact_descriptor",
                Payload("output"), <<>>, <<outputArtifact>>, <<>>),
       EmitCall("executor", "claim_issued", "claim",
                [Payload("claim") EXCEPT
                    !.claim_id = <<claimId>>,
                    !.evidence_artifacts = <<(<<outputArtifact>>)>>],
                <<claimId>>, <<outputArtifact>>, <<>>),
       EmitCall("executor", "final_statement_signed", "final_statement",
                Payload("final"), <<claimId>>, <<outputArtifact>>, <<>>) >>

\* the two events appendVerificationEventsAndVerify appends for the auditor
appendVerificationEvents ==
    << EmitCall("auditor", "verification_run_started", "verification_run",
                Payload("policy"), <<>>, <<>>, <<>>),
       EmitCall("auditor", "verification_run_completed",
                "verification_report",
                Payload("report"), <<>>, <<>>, <<>>) >>

\* the calls in the order they are made on a trace
FlowScript == runProtocolFlow \o appendVerificationEvents

\* every actor names the planner's key
actorFromContextOneKey(role) ==
    [agent_id |-> defaultAgentIdentity(role), role |-> role,
     key_id |-> "key_" \o defaultAgentIdentity("planner")]

\* actorFromContext
actorFromContext(role) ==
    [agent_id |-> defaultAgentIdentity(role), role |-> role,
     key_id |-> "key_" \o defaultAgentIdentity(role)]

\* the event the n-th call builds on the head prev at time now
FlowEvent(n, prev, now) ==
    buildSignedProtocolEvent(
        [trace_id |-> TraceId, event_id |-> n,
         event_type |-> FlowScript[n].event_type,
         created_at |-> now,
         actor |-> actorFromContext(FlowScript[n].role),
         payload_type |-> FlowScript[n].payload_type,
         payload |-> FlowScript[n].payload,
         claims |-> FlowScript[n].claims,
         artifacts |-> FlowScript[n].artifacts,
         prev_event_hash |-> prev,
         private_key_pem |->
             privateKeyOf(defaultAgentIdentity(FlowScript[n].role))])

\* appendChallengeEvent: the claim_challenged event of the critic for the
\* claim of the protocol run
challengeCall ==
    EmitCall("critic", "claim_challenged", "challenge",
             [Payload("challenge") EXCEPT !.challenged_claim_id = <<claimId>>],
             <<claimId>>, <<>>, <<>>)

\* the event_id of an event appended besides those of FlowScript
extraEventId == Len(FlowScript) + 1

\* the event buildSignedEvent makes of a call, besides those of FlowScript
ExtraEvent(call, prev, now) ==
    buildSignedProtocolEvent(
        [trace_id |-> TraceId, event_id |-> extraEventId,
         event_type |-> call.event_type,
         created_at |-> now,
         actor |-> actorFromContext(call.role),
         payload_type |-> call.payload_type,
         payload |-> call.payload,
         claims |-> call.claims,
         artifacts |-> call.artifacts,
         prev_event_hash |-> prev,
         private_key_pem |-> privateKeyOf(defaultAgentIdentity(call.role))])

\* ------------------------------------------------------------------------
\* verifyTrace
\* ------------------------------------------------------------------------
\* failure(input): event_id and artifact_hash are set only when the input
\* has a truthy value for them (event_id 0 and artifact_hash <<>>: not set)
failure(code, severity, check_id, event_id, artifact_hash, message, now) ==
    [failure_code |-> code, severity |-> severity, event_id |-> event_id,
     artifact_hash |-> artifact_hash, message |-> message,
     detected_at |-> now, verification_step |-> check_id]

\* warning(input)
warning(warning_code, severity, event_id, message, now) ==
    [warning_code |-> warning_code, severity |-> severity,
     event_id |-> event_id, message |-> message, detected_at |-> now]

\* the concatenation of a sequence of sequences
RECURSIVE FlattenSeq(_)
FlattenSeq(seqs) ==
    IF seqs = <<>> THEN <<>> ELSE Head(seqs) \o FlattenSeq(Tail(seqs))

\* failures.some((entry) => entry.verification_step === checkId)
someFailureOf(failures, check_id) ==
    \E i \in 1..Len(failures) : failures[i].verification_step = check_id

\* the status of a check is "fail" or "pass": warnings do not show in it
startCheckFailOrPass(st, check_id, newFailures, newWarnings, warning_code) ==
    LET failures == st.failures \o newFailures
        warnings == st.warnings \o newWarnings
        status ==
            IF someFailureOf(failures, check_id) THEN "fail" ELSE "pass"
    IN [st EXCEPT !.failures = failures, !.warnings = warnings,
                  !.checks = Append(st.checks,
                                    [check_id |-> check_id,
                                     status |-> status])]

\* startCheck: the operation ran to its end with the given failures and
\* warnings; its status is pushed to checks.  warning_code is the code the
\* operation looks for when it has no failure ("" when it looks for none).
startCheck(st, check_id, newFailures, newWarnings, warning_code) ==
    LET failures == st.failures \o newFailures
        warnings == st.warnings \o newWarnings
        status ==
            IF someFailureOf(failures, check_id) THEN "fail"
            ELSE IF \E i \in 1..Len(warnings) :
                       warnings[i].warning_code = warning_code
                 THEN "warning" ELSE "pass"
    IN [st EXCEPT !.failures = failures, !.warnings = warnings,
                  !.checks = Append(st.checks,
                                    [check_id |-> check_id,
                                     status |-> status])]

\* the operation of a check throws: verifyTrace ends with the exception
throwFrom(st, check_id) ==
    [st EXCEPT !.threw = TRUE, !.thrown_in = check_id]

\* the state of a run before the first check
startRun ==
    [threw |-> FALSE, thrown_in |-> "", checks |-> <<>>, failures |-> <<>>,
     warnings |-> <<>>, schemaValidEvents |-> {},
     signatureValidEvents |-> {}, existingArtifacts |-> <<>>,
     artifactHashValid |-> {}]

\* protocolEventSchema.safeParse(event).success
protocolEventSchema(e) ==
    /\ matchesULID(e.event_id)
    /\ e.event_type \in eventTypeSchema
    /\ e.actor # <<>> /\ e.actor[1].role \in roleSchema
    /\ e.signature # <<>>
    /\ e.signature[1].algorithm = SIGNATURE_ALGORITHM
    /\ e.claims # <<>>
    /\ e.artifacts # <<>>

\* the check without the guard against replayed event ids
schemaConformanceNoReplayGuard(evs, st, now) ==
    LET id == "CHK_SCHEMA_CONFORMANCE"
        seen(j) == {evs[i].event_id :
                       i \in {k \in 1..(j - 1) : protocolEventSchema(evs[k])}}
        accepted(j) ==
            protocolEventSchema(evs[j]) /\ evs[j].event_id \notin seen(j)
        perEvent(j) ==
            IF ~protocolEventSchema(evs[j])
            THEN <<failure("SCHEMA_INVALID", "medium", id, evs[j].event_id,
                           <<>>, "Event failed schema validation", now)>>
            ELSE (IF evs[j].trace_id # TraceId
                  THEN <<failure("SCHEMA_INVALID", "medium", id,
                                 evs[j].event_id, <<>>,
                                 "Event trace_id mismatch", now)>>
                  ELSE <<>>)
                 \o (IF evs[j].event_type \notin eventTypeSchema
                     THEN <<failure("SCHEMA_INVALID", "medium", id,
                                    evs[j].event_id, <<>>,
                                    "Unknown event type", now)>>
                     ELSE <<>>)
        fs == FlattenSeq([j \in 1..Len(evs) |-> perEvent(j)])
    IN startCheck([st EXCEPT !.schemaValidEvents =
                                {evs[j].event_id :
                                    j \in {k \in 1..Len(evs) : accepted(k)}}],
                  id, fs, <<>>, "")

\* CHK_SCHEMA_CONFORMANCE
CHK_SCHEMA_CONFORMANCE(evs, st, now) ==
    LET id == "CHK_SCHEMA_CONFORMANCE"
        seen(j) == {evs[i].event_id :
                       i \in {k \in 1..(j - 1) : protocolEventSchema(evs[k])}}
        accepted(j) ==
            protocolEventSchema(evs[j]) /\ evs[j].event_id \notin seen(j)
        perEvent(j) ==
            IF ~protocolEventSchema(evs[j])
            THEN <<failure("SCHEMA_INVALID", "medium", id, evs[j].event_id,
                           <<>>, "Event failed schema validation", now)>>
            ELSE IF evs[j].event_id \in seen(j)
            THEN <<failure("SCHEMA_INVALID", "medium", id, evs[j].event_id,
                           <<>>, "Duplicate event_id detected", now)>>
            ELSE (IF evs[j].trace_id # TraceId
                  THEN <<failure("SCHEMA_INVALID", "medium", id,
                                 evs[j].event_id, <<>>,
                                 "Event trace_id mismatch", now)>>
                  ELSE <<>>)
                 \o (IF evs[j].event_type \notin eventTypeSchema
                     THEN <<failure("SCHEMA_INVALID", "medium", id,
                                    evs[j].event_id, <<>>,
                                    "Unknown event type", now)>>
                     ELSE <<>>)
        fs == FlattenSeq([j \in 1..Len(evs) |-> perEvent(j)])
    IN startCheck([st EXCEPT !.schemaValidEvents =
                                {evs[j].event_id :
                                    j \in {k \in 1..Len(evs) : accepted(k)}}],
                  id, fs, <<>>, "")

\* CHK_EVENT_HASH_INTEGRITY
CHK_EVENT_HASH_INTEGRITY(evs, st, now) ==
    LET id == "CHK_EVENT_HASH_INTEGRITY"
        perEvent(j) ==
            IF computeProtocolEventHash(evs[j]) # evs[j].event_hash
            THEN <<failure("HASH_MISMATCH", "critical", id, evs[j].event_id,
                           <<>>, "Event hash mismatch", now)>>
            ELSE <<>>
    IN startCheck(st, id, FlattenSeq([j \in 1..Len(evs) |-> perEvent(j)]),
                  <<>>, "")

\* the loop goes on after a break and reports every one
chainContinuityEveryBreak(evs, st, now) ==
    LET id == "CHK_CHAIN_CONTINUITY"
        expectedPrev(j) ==
            IF j = 1 THEN GENESIS_PREV_HASH ELSE evs[j - 1].event_hash
        perEvent(j) ==
            IF evs[j].prev_event_hash # expectedPrev(j)
            THEN <<failure("CHAIN_BREAK", "critical", id,
                           evs[j].event_id, <<>>,
                           "prev_event_hash mismatch", now)>>
            ELSE <<>>
    IN startCheck(st, id, FlattenSeq([j \in 1..Len(evs) |-> perEvent(j)]),
                  <<>>, "")

\* CHK_CHAIN_CONTINUITY: the loop stops at the first break
CHK_CHAIN_CONTINUITY(evs, st, now) ==
    LET id == "CHK_CHAIN_CONTINUITY"
        expectedPrev(j) ==
            IF j = 1 THEN GENESIS_PREV_HASH ELSE evs[j - 1].event_hash
        breaks == {j \in 1..Len(evs) :
                      evs[j].prev_event_hash # expectedPrev(j)}
        first == CHOOSE j \in breaks : \A k \in breaks : j <= k
    IN startCheck(st, id,
                  IF breaks = {} THEN <<>>
                  ELSE <<failure("CHAIN_BREAK", "critical", id,
                                 evs[first].event_id, <<>>,
                                 "prev_event_hash mismatch", now)>>,
                  <<>>, "")

\* a signature that is present and has a key in the registry is taken
\* as valid
signatureStepTrusting(e, reg) ==
    IF e.event_type \notin requiredSignedEventTypes THEN "skip"
    ELSE IF e.signature = <<>> THEN "SIG_MISSING"
    ELSE IF e.actor = <<>> THEN "throw"
    ELSE IF resolveIdentityByKeyId(reg, e.actor[1].key_id) = {}
    THEN "no_public_key"
    ELSE "valid"

\* what the loop body of CHK_SIGNATURE_VALIDITY does with an event.
\* "throw": event.actor.key_id is read from an event without actor.
signatureStep(e, reg) ==
    IF e.event_type \notin requiredSignedEventTypes THEN "skip"
    ELSE IF e.signature = <<>> THEN "SIG_MISSING"
    ELSE IF e.actor = <<>> THEN "throw"
    ELSE LET identities == resolveIdentityByKeyId(reg, e.actor[1].key_id)
         IN IF identities = {} THEN "no_public_key"
            ELSE IF ~verifyBytes((CHOOSE i \in identities : TRUE).public_key,
                                 canonicalSignedBytes(e), e.signature[1])
            THEN "SIG_INVALID"
            ELSE "valid"

\* CHK_SIGNATURE_VALIDITY
CHK_SIGNATURE_VALIDITY(evs, reg, st, now) ==
    LET id == "CHK_SIGNATURE_VALIDITY"
        step(j) == signatureStep(evs[j], reg)
        perEvent(j) ==
            IF step(j) = "SIG_MISSING"
            THEN <<failure("SIG_MISSING", "critical", id, evs[j].event_id,
                           <<>>, "Required signature is missing", now)>>
            ELSE IF step(j) = "no_public_key"
            THEN <<failure("SIG_INVALID", "critical", id, evs[j].event_id,
                           <<>>, "Public key not found", now)>>
            ELSE IF step(j) = "SIG_INVALID"
            THEN <<failure("SIG_INVALID", "critical", id, evs[j].event_id,
                           <<>>, "Signature validation failed", now)>>
            ELSE <<>>
    IN IF \E j \in 1..Len(evs) : step(j) = "throw"
       THEN throwFrom(st, id)
       ELSE startCheck([st EXCEPT !.signatureValidEvents =
                                     {evs[j].event_id :
                                         j \in {k \in 1..Len(evs) :
                                                   step(k) = "valid"}}],
                       id, FlattenSeq([j \in 1..Len(evs) |-> perEvent(j)]),
                       <<>>, "")

\* only an event dated after the revocation counts
usedAfterRevocationLater(identity, created_at) ==
    /\ identity.status = "revoked"
    /\ identity.revoked_at # <<>>
    /\ created_at > identity.revoked_at[1]

\* identity.status === "revoked" && identity.revoked_at &&
\* event.created_at >= identity.revoked_at
usedAfterRevocation(identity, created_at) ==
    /\ identity.status = "revoked"
    /\ identity.revoked_at # <<>>
    /\ created_at >= identity.revoked_at[1]

\* CHK_KEY_STATUS; event.actor.key_id throws for an event without actor
CHK_KEY_STATUS(evs, reg, st, now) ==
    IF st.threw THEN st ELSE
    LET id == "CHK_KEY_STATUS"
        perEvent(j) ==
            LET actor == evs[j].actor[1]
                identities == resolveIdentityByKeyId(reg, actor.key_id)
                identity == CHOOSE i \in identities : TRUE
            IN IF identities = {}
               THEN <<failure("SCHEMA_INVALID", "medium", id,
                              evs[j].event_id, <<>>,
                              "Actor key_id not found in registry", now)>>
               ELSE IF identity.agent_id # actor.agent_id
               THEN <<failure("SCHEMA_INVALID", "medium", id,
                              evs[j].event_id, <<>>,
                              "Actor agent_id does not match", now)>>
               ELSE IF usedAfterRevocation(identity, evs[j].created_at)
               THEN <<failure("SCHEMA_INVALID", "medium", id,
                              evs[j].event_id, <<>>,
                              "Event signed with revoked key", now)>>
               ELSE <<>>
    IN IF \E j \in 1..Len(evs) : evs[j].actor = <<>>
       THEN throwFrom(st, id)
       ELSE startCheck(st, id,
                       FlattenSeq([j \in 1..Len(evs) |-> perEvent(j)]),
                       <<>>, "")

\* a sequence without the elements that occurred before in it (the order
\* in which a Set keeps what is added to it)
RECURSIVE InsertionOrder(_, _)
InsertionOrder(seq, acc) ==
    IF seq = <<>> THEN acc
    ELSE InsertionOrder(Tail(seq),
                        IF \E i \in 1..Len(acc) : acc[i] = Head(seq)
                        THEN acc ELSE Append(acc, Head(seq)))

\* CHK_ARTIFACT_EXISTENCE; the loop over event.artifacts throws for an
\* event without artifacts
CHK_ARTIFACT_EXISTENCE(evs, store, st, now) ==
    IF st.threw THEN st ELSE
    LET id == "CHK_ARTIFACT_EXISTENCE"
        perDescriptor(j, k) ==
            IF ~hasArtifact(store, evs[j].artifacts[1][k])
            THEN <<failure("ARTIFACT_MISSING", "high", id, evs[j].event_id,
                           <<evs[j].artifacts[1][k]>>,
                           "Referenced artifact blob missing", now)>>
            ELSE <<>>
        perEvent(j) ==
            FlattenSeq([k \in 1..Len(evs[j].artifacts[1]) |->
                           perDescriptor(j, k)])
        existing(j) ==
            SelectSeq(evs[j].artifacts[1], LAMBDA h : hasArtifact(store, h))
    IN IF \E j \in 1..Len(evs) : evs[j].artifacts = <<>>
       THEN throwFrom(st, id)
       ELSE startCheck([st EXCEPT !.existingArtifacts =
                           InsertionOrder(
                               FlattenSeq([j \in 1..Len(evs) |-> existing(j)]),
                               <<>>)],
                       id, FlattenSeq([j \in 1..Len(evs) |-> perEvent(j)]),
                       <<>>, "")

\* CHK_ARTIFACT_HASH_MATCH
CHK_ARTIFACT_HASH_MATCH(store, st, now) ==
    IF st.threw THEN st ELSE
    LET id == "CHK_ARTIFACT_HASH_MATCH"
        hashes == st.existingArtifacts
        matches(h) == sha256Hex(readArtifact(store, h)) = h
        perHash(k) ==
            IF ~hasArtifact(store, hashes[k]) \/ matches(hashes[k])
            THEN <<>>
            ELSE <<failure("ARTIFACT_HASH_MISMATCH", "high", id, 0,
                           <<hashes[k]>>,
                           "Artifact bytes do not match descriptor hash",
                           now)>>
    IN startCheck([st EXCEPT !.artifactHashValid =
                      {hashes[k] :
                          k \in {n \in 1..Len(hashes) :
                                    /\ hasArtifact(store, hashes[n])
                                    /\ matches(hashes[n])}}],
                  id, FlattenSeq([k \in 1..Len(hashes) |-> perHash(k)]),
                  <<>>, "")

\* every profile gives a disputed claim a warning
disputeOutcomeWarning(policyProfile) == "warning"

\* what a disputed, unresolved claim gets under a policy profile
disputeOutcome(policyProfile) ==
    IF policyProfile = "strict" THEN "failure" ELSE "warning"

\* CHK_CLAIM_EVIDENCE_SUFFICIENCY; reading a key of an undefined payload,
\* or claims[0] of undefined claims, throws
CHK_CLAIM_EVIDENCE_SUFFICIENCY(evs, policyProfile, st, now) ==
    IF st.threw THEN st ELSE
    LET id == "CHK_CLAIM_EVIDENCE_SUFFICIENCY"
        isClaim(j) == evs[j].event_type = "claim_issued"
        isChallenge(j) == evs[j].event_type = "claim_challenged"
        throws(j) ==
            \/ (isClaim(j) \/ isChallenge(j)) /\ evs[j].payload = <<>>
            \/ /\ isClaim(j) /\ evs[j].payload # <<>>
               /\ evs[j].payload[1].claim_id = <<>>
               /\ evs[j].claims = <<>>
        \* challengedClaims.get(c): the last challenge of the claim id
        challenges(c) ==
            {j \in 1..Len(evs) :
                /\ isChallenge(j)
                /\ evs[j].payload[1].challenged_claim_id = <<c>>}
        challengeEvent(c) ==
            evs[CHOOSE j \in challenges(c) : \A k \in challenges(c) : k <= j]
        payload(j) == evs[j].payload[1]
        claimIdOf(j) ==
            IF payload(j).claim_id # <<>> THEN payload(j).claim_id
            ELSE IF evs[j].claims[1] = <<>> THEN <<>>
            ELSE <<evs[j].claims[1][1]>>
        evidenceArtifacts(j) ==
            IF payload(j).evidence_artifacts # <<>>
            THEN payload(j).evidence_artifacts[1]
            ELSE evs[j].artifacts[1]
        evidenceOk(j) ==
            \A k \in 1..Len(evidenceArtifacts(j)) :
                evidenceArtifacts(j)[k] \in st.artifactHashValid
        disputed(j) ==
            /\ challenges(claimIdOf(j)[1]) # {}
            /\ payload(j).resolved # <<TRUE>>
        perEvent(j) ==
            IF ~isClaim(j) THEN <<>>
            ELSE IF claimIdOf(j) = <<>> \/ evidenceArtifacts(j) = <<>>
            THEN <<failure("CLAIM_UNPROVEN", "high", id, evs[j].event_id,
                           <<>>, "Claim has no evidence artifact references",
                           now)>>
            ELSE (IF ~evidenceOk(j)
                     \/ evs[j].event_id \notin st.signatureValidEvents
                  THEN <<failure("CLAIM_UNPROVEN", "high", id,
                                 evs[j].event_id, <<>>,
                                 "Claim evidence set is incomplete or invalid",
                                 now)>>
                  ELSE <<>>)
                 \o (IF disputed(j) /\ disputeOutcome(policyProfile) = "failure"
                     THEN <<failure("CLAIM_UNPROVEN", "high", id,
                                    challengeEvent(claimIdOf(j)[1]).event_id,
                                    <<>>,
                                    "Claim is disputed and unresolved", now)>>
                     ELSE <<>>)
        perEventWarnings(j) ==
            IF /\ isClaim(j)
               /\ claimIdOf(j) # <<>> /\ evidenceArtifacts(j) # <<>>
               /\ disputed(j) /\ disputeOutcome(policyProfile) = "warning"
            THEN <<warning("CLAIM_DISPUTED", "medium",
                           challengeEvent(claimIdOf(j)[1]).event_id,
                           "Claim remains disputed", now)>>
            ELSE <<>>
    IN IF \E j \in 1..Len(evs) : throws(j)
       THEN throwFrom(st, id)
       ELSE startCheck(st, id,
                       FlattenSeq([j \in 1..Len(evs) |-> perEvent(j)]),
                       FlattenSeq([j \in 1..Len(evs) |-> perEventWarnings(j)]),
                       "CLAIM_DISPUTED")

\* CHK_ROLE_POLICY_CONFORMANCE
CHK_ROLE_POLICY_CONFORMANCE(evs, st, now) ==
    IF st.threw THEN st ELSE
    LET id == "CHK_ROLE_POLICY_CONFORMANCE"
        allowed(j) ==
            /\ evs[j].actor[1].role \in DOMAIN rolePolicy
            /\ evs[j].event_type \in rolePolicy[evs[j].actor[1].role]
        perEvent(j) ==
            IF ~allowed(j)
            THEN <<failure("ROLE_POLICY_VIOLATION", "medium", id,
                           evs[j].event_id, <<>>,
                           "Role emitted disallowed event", now)>>
            ELSE <<>>
    IN IF \E j \in 1..Len(evs) : evs[j].actor = <<>>
       THEN throwFrom(st, id)
       ELSE startCheck(st, id,
                       FlattenSeq([j \in 1..Len(evs) |-> perEvent(j)]),
                       <<>>, "")

\* events.findIndex((event) => event.event_type === type), counted from 1;
\* 0 when there is none
findIndex(evs, event_type) ==
    LET found == {j \in 1..Len(evs) : evs[j].event_type = event_type}
    IN IF found = {} THEN 0
       ELSE CHOOSE j \in found : \A k \in found : j <= k

\* CHK_FINALIZATION_INTEGRITY
CHK_FINALIZATION_INTEGRITY(evs, allow_incomplete_finalization, st, now) ==
    IF st.threw THEN st ELSE
    LET id == "CHK_FINALIZATION_INTEGRITY"
        finalStatementIndex == findIndex(evs, "final_statement_signed")
        verificationCompletedIndex ==
            findIndex(evs, "verification_run_completed")
        verificationStartedIndex == findIndex(evs, "verification_run_started")
        missing(message) ==
            <<failure("SCHEMA_INVALID", "medium", id, 0, <<>>, message, now)>>
        fs ==
            (IF finalStatementIndex = 0
             THEN missing("Missing final_statement_signed event") ELSE <<>>)
            \o (IF verificationStartedIndex = 0
                THEN missing("Missing verification_run_started event")
                ELSE <<>>)
            \o (IF verificationCompletedIndex = 0
                    /\ ~allow_incomplete_finalization
                THEN missing("Missing verification_run_completed event")
                ELSE <<>>)
            \o (IF /\ finalStatementIndex > 0
                   /\ verificationCompletedIndex > 0
                   /\ finalStatementIndex > verificationCompletedIndex
                THEN <<failure("ROLE_POLICY_VIOLATION", "medium", id,
                               evs[finalStatementIndex].event_id, <<>>,
                               "final_statement_signed occurs after completion",
                               now)>>
                ELSE <<>>)
        ws ==
            IF verificationCompletedIndex = 0 /\ allow_incomplete_finalization
            THEN <<warning("FINALIZATION_INCOMPLETE", "low", 0,
                           "verification_run_completed not present", now)>>
            ELSE <<>>
    IN startCheck(st, id, fs, ws, "FINALIZATION_INCOMPLETE")

\* a verdict that looks at the warnings first
verdictWarningsFirst(failures, warnings) ==
    IF Len(warnings) > 0 THEN "pass-with-warnings"
    ELSE IF Len(failures) > 0 THEN "fail" ELSE "pass"

\* verificationStatus
verificationStatus(failures, warnings) ==
    IF Len(failures) > 0 THEN "fail"
    ELSE IF Len(warnings) > 0 THEN "pass-with-warnings" ELSE "pass"

\* verificationReportSchema.parse(report) throws: an event_id that is set
\* in a failure or warning is not a ULID
reportSchemaRejects(failures, warnings) ==
    \/ \E i \in 1..Len(failures) :
          failures[i].event_id # 0 /\ ~matchesULID(failures[i].event_id)
    \/ \E i \in 1..Len(warnings) :
          warnings[i].event_id # 0 /\ ~matchesULID(warnings[i].event_id)

\* the end of verifyTrace: the verdict and verificationReportSchema.parse
\* of the report, which throws when it rejects the report
buildReport(st, policyProfile, allow_incomplete_finalization, now, event_count) ==
    LET rejected == ~st.threw /\ reportSchemaRejects(st.failures, st.warnings)
    IN [done |-> TRUE,
        threw |-> st.threw \/ rejected,
        thrown_in |-> IF rejected THEN "verificationReportSchema"
                      ELSE st.thrown_in,
        checks |-> st.checks,
        failures |-> st.failures, warnings |-> st.warnings,
        verification_status |->
            IF st.threw \/ rejected THEN ""
            ELSE verificationStatus(st.failures, st.warnings),
        policy_profile |-> policyProfile,
        allow_incomplete_finalization |-> allow_incomplete_finalization,
        verified_at |-> now,
        event_count |-> event_count,
        signatureValidEvents |-> st.signatureValidEvents]

\* verifyTrace on the events readEvents returned: the ten checks in their
\* order (a check is not run once one before it threw); then the verdict
\* and the report.  The record holds the report (without report_id, which
\* is new in every run, and without the elapsed times), or the check the
\* exception came from, and the set of signature-valid events of the run.
verifyTrace(evs, reg, store, policyProfile, allow_incomplete_finalization, now) ==
    LET s1 == CHK_SCHEMA_CONFORMANCE(evs, startRun, now)
        s2 == CHK_EVENT_HASH_INTEGRITY(evs, s1, now)
        s3 == CHK_CHAIN_CONTINUITY(evs, s2, now)
        s4 == CHK_SIGNATURE_VALIDITY(evs, reg, s3, now)
        s5 == CHK_KEY_STATUS(evs, reg, s4, now)
        s6 == CHK_ARTIFACT_EXISTENCE(evs, store, s5, now)
        s7 == CHK_ARTIFACT_HASH_MATCH(store, s6, now)
        s8 == CHK_CLAIM_EVIDENCE_SUFFICIENCY(evs, policyProfile, s7, now)
        s9 == CHK_ROLE_POLICY_CONFORMANCE(evs, s8, now)
        s10 == CHK_FINALIZATION_INTEGRITY(
                   evs, allow_incomplete_finalization, s9, now)
    IN buildReport(s10, policyProfile, allow_incomplete_finalization, now,
                   Len(evs))

\* ------------------------------------------------------------------------
\* A protocol run, edits of the stored trace, and verification runs
\* ------------------------------------------------------------------------
\* the events of the lines of events.jsonl
ParsedEvents == readEvents(events, FALSE).parsed

\* writeEvents (tests): one line per event
writeEvents(evs) ==
    FlattenSeq([i \in 1..Len(evs) |-> JSONstringify(evs[i]) \o <<Newline>>])

\* runProtocolFlow: ensureAgentKey for the four roles, in order
EnsureAgentKeys ==
    /\ registry = {}
    /\ registry' =
          ensureAgentKey(
              ensureAgentKey(
                  ensureAgentKey(
                      ensureAgentKey(registry,
                                     defaultAgentIdentity("planner")),
                      defaultAgentIdentity("executor")),
                  defaultAgentIdentity("critic")),
              defaultAgentIdentity("auditor"))
    /\ UNCHANGED <<blobs, flow, edit, clock, run, dirty>>
    /\ UNCHANGED svars
    /\ UNCHANGED lvars

\* ledger.appendEvent(trace_id, e) by the only writer of the trace: the
\* lock is free, the checks pass, the line and the metadata are written
appendEvent(e) ==
    LET r == readEvents(events, TRUE)
    IN /\ openSyncWx
       /\ ~traceMismatch(e)
       /\ ~headMismatch(e, session)
       /\ ~hasDuplicateEventId(r.parsed, e)
       /\ events' = r.file \o JSONstringify(e) \o <<Newline>>
       /\ session' = [session EXCEPT
                         !.head_event_hash = e.event_hash,
                         !.event_count = session.event_count + 1,
                         !.artifact_count =
                             session.artifact_count + Len(e.artifacts[1])]
       /\ UNCHANGED <<lock, pc, ev, sess, outcome, lastRead, committed,
                      writes, faults, interrupted>>

\* the next emit call of runProtocolFlow: writeArtifact where the flow
\* writes one, buildSignedEvent on the head, appendEvent
Emit ==
    /\ registry # {}
    /\ flow < Len(runProtocolFlow)
    /\ LET call == FlowScript[flow + 1]
       IN /\ blobs' = IF call.bytes = <<>> THEN blobs
                      ELSE writeArtifact(blobs, call.bytes[1])
          /\ appendEvent(FlowEvent(flow + 1, session.head_event_hash, clock))
    /\ flow' = flow + 1
    /\ run' = NoRun
    /\ dirty' = TRUE
    /\ UNCHANGED svars
    /\ UNCHANGED <<registry, edit, clock>>

\* appendVerificationEventsAndVerify: ensureAgentKey for the auditor, then
\* the next verification event on the reloaded head
AppendVerificationEvent ==
    /\ flow >= Len(runProtocolFlow)
    /\ flow < Len(FlowScript)
    /\ registry' = ensureAgentKey(registry, defaultAgentIdentity("auditor"))
    /\ appendEvent(FlowEvent(flow + 1, session.head_event_hash, clock))
    /\ flow' = flow + 1
    /\ run' = NoRun
    /\ dirty' = TRUE
    /\ UNCHANGED svars
    /\ UNCHANGED <<blobs, edit, clock>>

\* time passes after a verification run
Tick ==
    /\ run # NoRun
    /\ clock < MaxClock
    /\ clock' = clock + 1
    /\ UNCHANGED <<registry, blobs, flow, edit, run, dirty>>
    /\ UNCHANGED svars
    /\ UNCHANGED lvars

\* what the protocol run stored is edited once, after the run and the
\* auditor's verification events are complete
CanEdit == flow = Len(FlowScript) /\ edit = NoEdit

\* an edit of the stored trace rewrites events.jsonl with the event of
\* line i replaced by the changed event; a signature is forged on any trace
\* the protocol run has returned, the other edits are made on the complete
\* trace
EditEvent(i, changed, op, field) ==
    /\ edit = NoEdit
    /\ IF op = "ForgeSignature"
          THEN flow >= Len(runProtocolFlow)
          ELSE flow = Len(FlowScript)
    /\ i <= flow
    /\ events' = writeEvents([ParsedEvents EXCEPT ![i] = changed])
    /\ edit' = [op |-> op, line |-> i, field |-> field]
    /\ run' = NoRun
    /\ dirty' = TRUE
    /\ UNCHANGED svars
    /\ UNCHANGED <<registry, blobs, flow, clock>>
    /\ UNCHANGED <<session, lock, pc, ev, sess, outcome, lastRead,
                   committed, writes, faults, interrupted>>

\* the payload of an event is replaced, every other field is kept
MutatePayload(i) ==
    EditEvent(i, [ParsedEvents[i] EXCEPT !.payload = <<Payload("tampered")>>],
              "MutatePayload", "payload")

\* the fields of a line that may be deleted
OptionalFields == {"actor", "signature", "payload", "claims", "artifacts"}

\* a field of an event is deleted from its line
DeleteField(i, field) ==
    EditEvent(i, [ParsedEvents[i] EXCEPT ![field] = <<>>],
              "DeleteField", field)

\* the event_id of an event is replaced by a string that is not a ULID
CorruptEventId(i) ==
    EditEvent(i, [ParsedEvents[i] EXCEPT !.event_id = 0 - @],
              "CorruptEventId", "event_id")

\* an event with a signature made with a key that is not the actor's, and
\* with the event_hash of the event so signed
forgeSignature(e) ==
    LET forged == [e EXCEPT
                      !.signature =
                          <<signBytes(privateKeyOf("intruder"),
                                      canonicalSignedBytes(e))>>]
    IN [forged EXCEPT !.event_hash = computeProtocolEventHash(forged)]

\* the signature of an event is replaced by a forged one
ForgeSignature(i) ==
    EditEvent(i, forgeSignature(ParsedEvents[i]),
              "ForgeSignature", "signature")

\* claimEvent.payload.evidence_artifacts = [] and claimEvent.artifacts = []
ClearEvidence(i) ==
    EditEvent(i, [ParsedEvents[i] EXCEPT
                     !.payload = <<[@[1] EXCEPT
                                       !.evidence_artifacts = <<(<<>>)>>]>>,
                     !.artifacts = <<(<<>>)>>],
              "ClearEvidence", "evidence_artifacts")

\* the claim id is taken from the payload and from the claims of an event
ClearClaimId(i) ==
    EditEvent(i, [ParsedEvents[i] EXCEPT
                     !.payload = <<[@[1] EXCEPT !.claim_id = <<>>]>>,
                     !.claims = <<(<<>>)>>],
              "ClearClaimId", "claim_id")

\* proposal.actor.role = "auditor", and the like for actor.agent_id
ChangeActor(i, field, value) ==
    EditEvent(i, [ParsedEvents[i] EXCEPT
                     !.actor = <<[@[1] EXCEPT ![field] = value]>>],
              "ChangeActor", field)

\* an edit of the stored trace that rewrites events.jsonl with other lines
RewriteTrace(evs, op, i) ==
    /\ CanEdit
    /\ i <= flow
    /\ events' = writeEvents(evs)
    /\ edit' = [op |-> op, line |-> i, field |-> ""]
    /\ run' = NoRun
    /\ dirty' = TRUE
    /\ UNCHANGED svars
    /\ UNCHANGED <<registry, blobs, flow, clock>>
    /\ UNCHANGED <<session, lock, pc, ev, sess, outcome, lastRead,
                   committed, writes, faults, interrupted>>

\* events.splice(i, 1): the line of an event is deleted
DeleteEvent(i) ==
    RewriteTrace(SubSeq(ParsedEvents, 1, i - 1)
                    \o SubSeq(ParsedEvents, i + 1, Len(ParsedEvents)),
                 "DeleteEvent", i)

\* events.push(events[i]): a copy of an event is added at the end
ReplayEvent(i) ==
    RewriteTrace(Append(ParsedEvents, ParsedEvents[i]), "ReplayEvent", i)

\* "f".repeat(64)
forgedPrevHash == [n \in 1..64 |-> "f"]

\* events.splice(k, 0, forged): a copy of event i, with another event_id
\* and a forged prev_event_hash, is inserted after event k
InsertForgedEvent(i, k) ==
    LET forged == [ParsedEvents[i] EXCEPT
                      !.event_id = extraEventId,
                      !.prev_event_hash = forgedPrevHash]
    IN /\ k <= Len(ParsedEvents)
       /\ RewriteTrace(SubSeq(ParsedEvents, 1, k) \o <<forged>>
                          \o SubSeq(ParsedEvents, k + 1, Len(ParsedEvents)),
                       "InsertForgedEvent", k)

\* events.push(...events.splice(i, 1)): an event is moved to the end
MoveEventToEnd(i) ==
    RewriteTrace(SubSeq(ParsedEvents, 1, i - 1)
                    \o SubSeq(ParsedEvents, i + 1, Len(ParsedEvents))
                    \o <<ParsedEvents[i]>>,
                 "MoveEventToEnd", i)

\* an event appended to the trace of the protocol run by buildSignedEvent
\* and appendEvent on the head: before the verification events, or after
\* them (a late final statement)
AppendExtraEvent(call, op) ==
    /\ edit = NoEdit
    /\ flow = (IF op = "AppendLateFinalStatement" THEN Len(FlowScript)
                ELSE Len(runProtocolFlow))
    /\ registry' = ensureAgentKey(registry, defaultAgentIdentity(call.role))
    /\ appendEvent(ExtraEvent(call, session.head_event_hash, clock))
    /\ edit' = [op |-> op, line |-> 0, field |-> ""]
    /\ run' = NoRun
    /\ dirty' = TRUE
    /\ UNCHANGED svars
    /\ UNCHANGED <<blobs, flow, clock>>

\* appendChallengeEvent(cocHome, traceId, claimId)
AppendChallengeEvent == AppendExtraEvent(challengeCall, "AppendChallengeEvent")

\* the executor signs a final statement a second time
AppendFinalStatement ==
    AppendExtraEvent(runProtocolFlow[Len(runProtocolFlow)],
                     "AppendFinalStatement")

\* the executor signs a final statement after verification_run_completed
AppendLateFinalStatement ==
    AppendExtraEvent(runProtocolFlow[Len(runProtocolFlow)],
                     "AppendLateFinalStatement")

\* ledger.appendEvent(trace_id, e) with a copy of event i of the trace,
\* chained to the head: the event is appended unless appendEvent throws
AppendReplayedEvent(i) ==
    LET r == readEvents(events, TRUE)
        e == [ParsedEvents[i] EXCEPT
                 !.prev_event_hash = session.head_event_hash]
    IN /\ CanEdit
       /\ i <= flow
       /\ openSyncWx
       /\ IF \/ traceMismatch(e)
             \/ headMismatch(e, session)
             \/ hasDuplicateEventId(r.parsed, e)
          THEN /\ events' = r.file
               /\ session' = session
          ELSE /\ events' = r.file \o JSONstringify(e) \o <<Newline>>
               /\ session' = [session EXCEPT
                                 !.head_event_hash = e.event_hash,
                                 !.event_count = session.event_count + 1,
                                 !.artifact_count =
                                     session.artifact_count
                                         + Len(e.artifacts[1])]
       /\ edit' = [op |-> "AppendReplayedEvent", line |-> i, field |-> ""]
       /\ run' = NoRun
       /\ dirty' = TRUE
       /\ UNCHANGED svars
       /\ UNCHANGED <<registry, blobs, flow, clock>>
       /\ UNCHANGED <<lock, pc, ev, sess, outcome, lastRead, committed,
                      writes, faults, interrupted>>

\* the status of an identity in keys/registry.json is set to revoked
RevokeIdentity(key_id, revoked_at) ==
    /\ CanEdit
    /\ flow = Len(FlowScript)
    /\ resolveIdentityByKeyId(registry, key_id) # {}
    /\ registry' = {IF identity.key_id = key_id
                    THEN [identity EXCEPT !.status = "revoked",
                                          !.revoked_at = revoked_at]
                    ELSE identity : identity \in registry}
    /\ edit' = [op |-> "RevokeIdentity", line |-> 0, field |-> key_id]
    /\ run' = NoRun
    /\ dirty' = TRUE
    /\ UNCHANGED svars
    /\ UNCHANGED <<blobs, flow, clock>>
    /\ UNCHANGED lvars

\* unlinkSync(store.resolveBlobPath(artifactHash))
UnlinkBlob(artifact_hash) ==
    /\ CanEdit
    /\ hasArtifact(blobs, artifact_hash)
    /\ blobs' = {blob \in blobs : blob.artifact_hash # artifact_hash}
    /\ edit' = [op |-> "UnlinkBlob", line |-> 0, field |-> "blob"]
    /\ run' = NoRun
    /\ dirty' = TRUE
    /\ UNCHANGED svars
    /\ UNCHANGED <<registry, flow, clock>>
    /\ UNCHANGED lvars

\* writeFileSync(store.resolveBlobPath(artifactHash), "tampered-bytes")
OverwriteBlob(artifact_hash) ==
    /\ CanEdit
    /\ hasArtifact(blobs, artifact_hash)
    /\ blobs' = {IF blob.artifact_hash = artifact_hash
                 THEN [blob EXCEPT !.bytes = "tampered-bytes"]
                 ELSE blob : blob \in blobs}
    /\ edit' = [op |-> "OverwriteBlob", line |-> 0, field |-> "blob"]
    /\ run' = NoRun
    /\ dirty' = TRUE
    /\ UNCHANGED svars
    /\ UNCHANGED <<registry, flow, clock>>
    /\ UNCHANGED lvars

\* an identity is missing from keys/registry.json
DropIdentity(key_id) ==
    /\ CanEdit
    /\ resolveIdentityByKeyId(registry, key_id) # {}
    /\ registry' = registry \ resolveIdentityByKeyId(registry, key_id)
    /\ edit' = [op |-> "DropIdentity", line |-> 0, field |-> key_id]
    /\ run' = NoRun
    /\ dirty' = TRUE
    /\ UNCHANGED svars
    /\ UNCHANGED <<blobs, flow, clock>>
    /\ UNCHANGED lvars

\* verifyTrace(input): loadTrace, readEvents with recovery, the checks, the
\* report; a run is made when what is stored changed or time has passed
\* since the run before
VerifyTrace(policyProfile, allow_incomplete_finalization) ==
    /\ flow >= Len(runProtocolFlow)
    /\ run = NoRun \/ run.verified_at # clock
    /\ LET r == readEvents(events, TRUE)
       IN /\ events' = r.file
          /\ run' = verifyTrace(r.parsed, registry, blobs, policyProfile,
                                allow_incomplete_finalization, clock)
    /\ dirty' = FALSE
    /\ UNCHANGED svars
    /\ UNCHANGED <<registry, blobs, flow, edit, clock>>
    /\ UNCHANGED <<session, lock, pc, ev, sess, outcome, lastRead,
                   committed, writes, faults, interrupted>>

\* the lines of the claim_issued events of FlowScript
claimLines ==
    {i \in 1..Len(FlowScript) : FlowScript[i].event_type = "claim_issued"}

\* the revoked_at of a revoked identity: not set, or a time
revocationTimes == {<<>>} \cup {<<t>> : t \in 0..MaxClock}

\* a protocol run, an edit of what it stored, and verification runs
NextVerify ==
    \/ EnsureAgentKeys
    \/ Emit
    \/ AppendVerificationEvent
    \/ Tick
    \/ \E i \in 1..Len(FlowScript) : MutatePayload(i)
    \/ \E i \in 1..Len(FlowScript), field \in OptionalFields :
          DeleteField(i, field)
    \/ \E i \in 1..Len(FlowScript) : CorruptEventId(i)
    \/ \E i \in 1..Len(FlowScript) : ForgeSignature(i)
    \/ \E i \in claimLines : ClearEvidence(i)
    \/ \E i \in claimLines : ClearClaimId(i)
    \/ \E i \in 1..Len(FlowScript) : ChangeActor(i, "role", "auditor")
    \/ \E i \in 1..Len(FlowScript) :
          ChangeActor(i, "agent_id", "intruder-agent")
    \/ \E i \in 1..Len(FlowScript) : DeleteEvent(i)
    \/ \E i \in 1..Len(FlowScript) : ReplayEvent(i)
    \/ \E i \in {1, Len(runProtocolFlow)} : AppendReplayedEvent(i)
    \/ \E k \in {2, Len(runProtocolFlow)} : InsertForgedEvent(2, k)
    \/ AppendChallengeEvent
    \/ AppendFinalStatement
    \/ AppendLateFinalStatement
    \/ MoveEventToEnd(Len(runProtocolFlow))
    \/ \E role \in roleSchema, revoked_at \in revocationTimes :
          RevokeIdentity("key_" \o defaultAgentIdentity(role), revoked_at)
    \/ \E h \in {inputArtifact, outputArtifact} : UnlinkBlob(h)
    \/ \E h \in {inputArtifact, outputArtifact} : OverwriteBlob(h)
    \/ \E role \in roleSchema :
          DropIdentity("key_" \o defaultAgentIdentity(role))
    \/ \E policyProfile \in policyProfileSchema,
          allow_incomplete_finalization \in BOOLEAN :
          VerifyTrace(policyProfile, allow_incomplete_finalization)

SpecVerify == Init /\ [][NextVerify]_vars

\* ------------------------------------------------------------------------
\* appendVerificationEventsAndVerify (CLI), step by step
\* ------------------------------------------------------------------------
\* what a step of the run leaves alone besides the ledger, the registry,
\* the verification run and its own locals
auditFrame ==
    /\ UNCHANGED <<blobs, edit, clock>>
    /\ UNCHANGED <<metas, wr, calls, keyFile, kp, keys, sig>>

\* newReportId(): the n-th report id generated
newReportId(n) == n

\* the payload of verification_run_completed
verificationReportPayload(verification_status, report_id) ==
    [body |-> "report", claim_id |-> <<>>, evidence_artifacts |-> <<>>,
     challenged_claim_id |-> <<>>, resolved |-> <<>>,
     verification_status |-> verification_status, report_id |-> report_id]

\* the verification_run_completed event built on the head prev
completedEvent(prev, now, verification_status, report_id) ==
    buildSignedProtocolEvent(
        [trace_id |-> TraceId, event_id |-> Len(FlowScript),
         event_type |-> "verification_run_completed",
         created_at |-> now,
         actor |-> actorFromContext("auditor"),
         payload_type |-> "verification_report",
         payload |-> verificationReportPayload(verification_status,
                                               report_id),
         claims |-> <<>>,
         artifacts |-> <<>>,
         prev_event_hash |-> prev,
         private_key_pem |-> privateKeyOf(defaultAgentIdentity("auditor"))])

\* loadTrace, ensureAgentKey for the auditor, the verification_run_started
\* event on the head of the trace, appendEvent
AuditStart(policyProfile) ==
    /\ audit.pc = "idle"
    /\ flow = Len(runProtocolFlow)
    /\ registry' = ensureAgentKey(registry, defaultAgentIdentity("auditor"))
    /\ appendEvent(FlowEvent(flow + 1, session.head_event_hash, clock))
    /\ flow' = flow + 1
    /\ audit' = [NoAudit EXCEPT !.pc = "preVerify",
                                !.policy_profile = policyProfile]
    /\ run' = NoRun
    /\ dirty' = TRUE
    /\ UNCHANGED reports
    /\ auditFrame

\* preReport = verifyTrace({..., write_reports: false,
\* allow_incomplete_finalization: true}); an exception ends the run
AuditPreVerify ==
    /\ audit.pc = "preVerify"
    /\ LET r == readEvents(events, TRUE)
           preReport == verifyTrace(r.parsed, registry, blobs,
                                    audit.policy_profile, TRUE, clock)
       IN /\ events' = r.file
          /\ run' = preReport
          /\ audit' = IF preReport.threw
                      THEN [audit EXCEPT !.pc = "threw"]
                      ELSE [audit EXCEPT
                               !.pc = "complete",
                               !.preReport = preReport.verification_status]
    /\ dirty' = FALSE
    /\ UNCHANGED <<registry, flow, reports>>
    /\ UNCHANGED <<session, lock, pc, ev, sess, outcome, lastRead,
                   committed, writes, faults, interrupted>>
    /\ auditFrame

\* reportId = newReportId(); the verification_run_completed event with
\* the status of preReport and the report id, on the reloaded head;
\* appendEvent
AuditComplete ==
    /\ audit.pc = "complete"
    /\ LET reportId == newReportId(Cardinality(reports) + 1)
       IN /\ appendEvent(completedEvent(session.head_event_hash, clock,
                                        audit.preReport, reportId))
          /\ audit' = [audit EXCEPT !.pc = "finalVerify",
                                    !.report_id = reportId]
    /\ flow' = flow + 1
    /\ run' = NoRun
    /\ dirty' = TRUE
    /\ UNCHANGED <<registry, reports>>
    /\ auditFrame

\* finalReport = verifyTrace({..., report_id: reportId}): the report is
\* written to reports/<report_id>.json; an exception ends the run
AuditFinalVerify ==
    /\ audit.pc = "finalVerify"
    /\ LET r == readEvents(events, TRUE)
           finalReport == verifyTrace(r.parsed, registry, blobs,
                                      audit.policy_profile, FALSE, clock)
       IN /\ events' = r.file
          /\ run' = finalReport
          /\ IF finalReport.threw
             THEN /\ audit' = [audit EXCEPT !.pc = "threw"]
                  /\ UNCHANGED reports
             ELSE /\ audit' = [audit EXCEPT !.pc = "updateStatus"]
                  /\ reports' =
                        {report \in reports :
                            report.report_id # audit.report_id}
                        \cup {[report_id |-> audit.report_id,
                                verification_status |->
                                    finalReport.verification_status]}
    /\ dirty' = FALSE
    /\ UNCHANGED <<registry, flow>>
    /\ UNCHANGED <<session, lock, pc, ev, sess, outcome, lastRead,
                   committed, writes, faults, interrupted>>
    /\ auditFrame

\* traceStore.updateTraceStatus(trace_id, finalReport.report
\* .verification_status === "fail" ? "failed" : "succeeded")
AuditUpdateStatus ==
    /\ audit.pc = "updateStatus"
    /\ session' = [session EXCEPT
                      !.status = IF run.verification_status = "fail"
                                 THEN "failed" ELSE "succeeded"]
    /\ audit' = [audit EXCEPT !.pc = "returned"]
    /\ UNCHANGED <<registry, flow, run, dirty, reports>>
    /\ UNCHANGED <<events, lock, pc, ev, sess, outcome, lastRead,
                   committed, writes, faults, interrupted>>
    /\ auditFrame

\* a protocol run, a signature forged in what it stored or not, and the
\* CLI's verification run on the trace; time passes
NextAudit ==
    \/ EnsureAgentKeys
    \/ Emit
    \/ Tick
    \/ \E i \in 1..Len(runProtocolFlow) :
          audit.pc = "idle" /\ ForgeSignature(i)
    \/ \E policyProfile \in policyProfileSchema : AuditStart(policyProfile)
    \/ AuditPreVerify
    \/ AuditComplete
    \/ AuditFinalVerify
    \/ AuditUpdateStatus

SpecAudit == Init /\ [][NextAudit]_vars

\* ------------------------------------------------------------------------
\* ArtifactStore.writeArtifact, file operation by file operation
\* ------------------------------------------------------------------------
\* number of writeArtifact calls
MaxArtifactWrites == 3
\* the producer_event_id values the callers draw from
MaxProducerId == 2

\* the inputs of the writeArtifact calls
WriteArtifactInputs ==
    [trace_id : {TraceId, OtherTraceId},
     producer_event_id : 1..MaxProducerId,
     bytes : {"outputPayload", "normalizedInput"},
     media_type : {"application/json"},
     encoding : {"utf-8"}]

\* existsSync(path) in a directory of files named by artifact hash
existsSync(files, artifact_hash) ==
    \E file \in files : file.artifact_hash = artifact_hash

\* the file of the hash
fileOf(files, artifact_hash) ==
    CHOOSE file \in files : file.artifact_hash = artifact_hash

\* the directory after a file of it was replaced or created
withFile(files, file) ==
    {f \in files : f.artifact_hash # file.artifact_hash} \cup {file}

\* the (trace_id, producer_event_id) pair of an input or of a reference
pairOf(r) == <<r.trace_id, r.producer_event_id>>

\* the descriptor writeArtifact builds (the fields a later step reads or
\* compares; byte_size, storage_uri, hash_algorithm, redaction_status and
\* integrity_verified_at are written and never read by the store)
descriptorOf(input, now) ==
    [artifact_hash |-> sha256Hex(input.bytes),
     media_type |-> input.media_type,
     encoding |-> input.encoding,
     created_at |-> now,
     producer_event_id |-> input.producer_event_id,
     trace_id |-> input.trace_id]

\* the entry of the references list for an input
referenceOf(input, now) ==
    [trace_id |-> input.trace_id,
     producer_event_id |-> input.producer_event_id,
     created_at |-> now]

\* the sidecar written when there is none: the descriptor and one reference
newSidecar(input, now) ==
    [descriptor |-> descriptorOf(input, now),
     references |-> <<referenceOf(input, now)>>]

\* no pair is ever found in the references list
alreadyLinkedNever(references, input) == FALSE

\* references.some(entry => entry.trace_id === input.trace_id &&
\* entry.producer_event_id === input.producer_event_id)
alreadyLinked(references, input) ==
    \E i \in 1..Len(references) : pairOf(references[i]) = pairOf(input)

\* the call of process p ended, returning or throwing
endCall(p, how) ==
    /\ wr' = [wr EXCEPT ![p] = IdleWriter]
    /\ calls' = IF how = "returned"
                THEN [calls EXCEPT !.returned = @ \cup {wr[p].input}]
                ELSE [calls EXCEPT !.thrown = @ \cup {wr[p].input}]

\* what a step of writeArtifact leaves alone besides the store
storeFrame ==
    /\ UNCHANGED <<registry, flow, edit, clock, run, dirty>>
    /\ UNCHANGED <<keyFile, kp, keys, sig, audit, reports>>
    /\ UNCHANGED lvars

\* store.writeArtifact(input) is called by process p
WriteArtifactCall(p, input) ==
    /\ wr[p].pc = "idle"
    /\ calls.started < MaxArtifactWrites
    /\ wr' = [wr EXCEPT ![p] = [IdleWriter EXCEPT !.pc = "existsBlob",
                                                  !.input = input]]
    /\ calls' = [calls EXCEPT
                    !.started = @ + 1,
                    !.overlapped =
                        @ \/ \E q \in Procs \ {p} : wr[q].pc # "idle"]
    /\ UNCHANGED <<blobs, metas>>
    /\ storeFrame

\* if (!existsSync(blobPath))
ExistsBlob(p) ==
    /\ wr[p].pc = "existsBlob"
    /\ wr' = [wr EXCEPT ![p].pc =
                 IF hasArtifact(blobs, sha256Hex(wr[p].input.bytes))
                 THEN "existsMeta" ELSE "openBlob"]
    /\ UNCHANGED <<blobs, metas, calls>>
    /\ storeFrame

\* writeFileSync(blobPath, input.bytes): the file is opened, which creates
\* it or empties it
OpenBlob(p) ==
    /\ wr[p].pc = "openBlob"
    /\ blobs' = withFile(blobs,
                         [artifact_hash |-> sha256Hex(wr[p].input.bytes),
                          bytes |-> ""])
    /\ wr' = [wr EXCEPT ![p].pc = "writeBlob"]
    /\ UNCHANGED <<metas, calls>>
    /\ storeFrame

\* writeFileSync(blobPath, input.bytes): the bytes are written
WriteBlob(p) ==
    /\ wr[p].pc = "writeBlob"
    /\ blobs' = withFile(blobs,
                         [artifact_hash |-> sha256Hex(wr[p].input.bytes),
                          bytes |-> wr[p].input.bytes])
    /\ wr' = [wr EXCEPT ![p].pc = "existsMeta"]
    /\ UNCHANGED <<metas, calls>>
    /\ storeFrame

\* const now = nowIso(); if (!existsSync(metaPath))
ExistsMeta(p) ==
    /\ wr[p].pc = "existsMeta"
    /\ wr' = [wr EXCEPT
                 ![p].now = clock,
                 ![p].pc =
                     IF existsSync(metas, sha256Hex(wr[p].input.bytes))
                     THEN "readMeta" ELSE "openMeta"]
    /\ UNCHANGED <<blobs, metas, calls>>
    /\ storeFrame

\* const current = JSON.parse(readFileSync(metaPath)): the parse throws on
\* a file that is empty; a pair that is already linked ends the call
ReadMeta(p) ==
    LET file == fileOf(metas, sha256Hex(wr[p].input.bytes))
    IN /\ wr[p].pc = "readMeta"
       /\ IF file.text = <<>>
          THEN endCall(p, "threw")
          ELSE IF alreadyLinked(file.text[1].references, wr[p].input)
          THEN endCall(p, "returned")
          ELSE /\ wr' = [wr EXCEPT ![p].pc = "openMeta",
                                   ![p].current = file.text]
               /\ UNCHANGED calls
       /\ UNCHANGED <<blobs, metas>>
       /\ storeFrame

\* writeFileSync(metaPath, ...): the file is opened, which creates it or
\* empties it
OpenMeta(p) ==
    /\ wr[p].pc = "openMeta"
    /\ metas' = withFile(metas,
                         [artifact_hash |-> sha256Hex(wr[p].input.bytes),
                          text |-> <<>>])
    /\ wr' = [wr EXCEPT ![p].pc = "writeMeta"]
    /\ UNCHANGED <<blobs, calls>>
    /\ storeFrame

\* writeFileSync(metaPath, ...): the text is written, the new sidecar or
\* {...current, references} with the reference pushed; the call returns
WriteMeta(p) ==
    LET input == wr[p].input
        sidecar ==
            IF wr[p].current = <<>> THEN newSidecar(input, wr[p].now)
            ELSE [wr[p].current[1] EXCEPT
                     !.references =
                         Append(@, referenceOf(input, wr[p].now))]
    IN /\ wr[p].pc = "writeMeta"
       /\ metas' = withFile(metas,
                            [artifact_hash |-> sha256Hex(input.bytes),
                             text |-> <<sidecar>>])
       /\ endCall(p, "returned")
       /\ UNCHANGED blobs
       /\ storeFrame

\* writeFileSync(store.resolveBlobPath(artifactHash), "tampered-bytes")
\* between two writeArtifact calls: the blob of a hash no longer holds the
\* bytes of the hash
SubstituteBlob(artifact_hash) ==
    /\ edit = NoEdit
    /\ \A p \in Procs : wr[p].pc = "idle"
    /\ hasArtifact(blobs, artifact_hash)
    /\ blobs' = withFile(blobs, [artifact_hash |-> artifact_hash,
                                 bytes |-> "tampered-bytes"])
    /\ edit' = [op |-> "SubstituteBlob", line |-> 0, field |-> "blob"]
    /\ UNCHANGED <<metas, wr, calls>>
    /\ UNCHANGED <<registry, flow, clock, run, dirty>>
    /\ UNCHANGED <<keyFile, kp, keys, sig, audit, reports>>
    /\ UNCHANGED lvars

NextStore ==
    \/ \E p \in Procs, input \in WriteArtifactInputs :
          WriteArtifactCall(p, input)
    \/ \E p \in Procs : ExistsBlob(p)
    \/ \E p \in Procs : OpenBlob(p)
    \/ \E p \in Procs : WriteBlob(p)
    \/ \E p \in Procs : ExistsMeta(p)
    \/ \E p \in Procs : ReadMeta(p)
    \/ \E p \in Procs : OpenMeta(p)
    \/ \E p \in Procs : WriteMeta(p)

SpecStore == Init /\ [][NextStore]_vars

\* writeArtifact calls on a store in which a blob may be substituted
NextBlob ==
    \/ NextStore
    \/ \E h \in {inputArtifact, outputArtifact} : SubstituteBlob(h)

SpecBlob == Init /\ [][NextBlob]_vars

\* ------------------------------------------------------------------------
\* ensureAgentKey on keys/registry.json, file operation by file operation
\* ------------------------------------------------------------------------
\* number of ensureAgentKey calls
MaxKeyCalls == 3

\* agent ids as the callers write them: sequences of characters
AgentIdInputs ==
    {<<"a">>, <<"A">>, <<" ", "a", " ">>, <<"b">>}

\* String.prototype.trim
RECURSIVE trimStart(_)
trimStart(str) ==
    IF str # <<>> /\ Head(str) = " " THEN trimStart(Tail(str)) ELSE str

RECURSIVE trimEnd(_)
trimEnd(str) ==
    IF str # <<>> /\ str[Len(str)] = " "
    THEN trimEnd(SubSeq(str, 1, Len(str) - 1)) ELSE str

trim(str) == trimEnd(trimStart(str))

\* String.prototype.toLowerCase on the letters of the model
toLowerCase(str) ==
    [i \in 1..Len(str) |->
        CASE str[i] = "A" -> "a"
          [] str[i] = "B" -> "b"
          [] OTHER -> str[i]]

\* normalizeAgentId
normalizeAgentId(agentId) == toLowerCase(trim(agentId))

\* generateKeyPairSync("ed25519"): the n-th pair generated is a new one
generateKeyPairSync(n) ==
    [privateKey |-> [pair |-> n, half |-> "private"],
     publicKey |-> [pair |-> n, half |-> "public"]]

\* `key_${keyFingerprint.slice(0, 16)}` of a public key
keyIdOf(publicKey) == <<"key_">> \o sha256Hex(publicKey)

\* createIdentity(params) of ensureAgentKey
createAgentIdentity(agent_id, publicKey, now) ==
    [agent_id |-> agent_id, key_id |-> keyIdOf(publicKey),
     public_key |-> publicKey, status |-> "active",
     created_at |-> now, revoked_at |-> <<>>]

\* the identities of the registry that are taken whatever their status
existingIdentityAnyStatus(identities, agentId) ==
    SelectSeq(identities, LAMBDA identity : identity.agent_id = agentId)

\* registry.identities.find((identity) => identity.agent_id === agentId &&
\* identity.status !== "revoked"): the matches in order (none: undefined)
existingIdentity(identities, agentId) ==
    SelectSeq(identities,
              LAMBDA identity :
                  identity.agent_id = agentId /\ identity.status # "revoked")

\* the identities of keys/registry.json (none when there is no such file
\* or it is empty)
registryIdentities(file) ==
    IF file.exists /\ file.text # <<>> THEN file.text[1] ELSE <<>>

\* what a step of ensureAgentKey leaves alone besides the registry file
keysFrame ==
    /\ UNCHANGED <<registry, blobs, flow, edit, clock, run, dirty>>
    /\ UNCHANGED <<metas, wr, calls, sig, audit, reports>>
    /\ UNCHANGED lvars

\* the call of process p returns the key material of the identity
returnKeyMaterial(p, identity, after) ==
    /\ kp' = [kp EXCEPT ![p] = IdleKeyProc]
    /\ keys' = [keys EXCEPT
                   !.issued = Append(@, [agentId |-> kp[p].agentId,
                                         key_id |-> identity.key_id,
                                         before |-> kp[p].before,
                                         after |-> after])]

\* ensureAgentKey(params) is called by process p
EnsureAgentKeyCall(p, agentId) ==
    /\ kp[p].pc = "idle"
    /\ keys.called < MaxKeyCalls
    /\ kp' = [kp EXCEPT ![p] = [IdleKeyProc EXCEPT
                                   !.pc = "exists",
                                   !.agentId = agentId,
                                   !.before = registryIdentities(keyFile)]]
    /\ keys' = [keys EXCEPT
                   !.called = @ + 1,
                   !.overlapped =
                       @ \/ \E q \in Procs \ {p} : kp[q].pc # "idle"]
    /\ UNCHANGED keyFile
    /\ keysFrame

\* loadRegistry: if (!existsSync(filePath))
ExistsRegistry(p) ==
    /\ kp[p].pc = "exists"
    /\ kp' = [kp EXCEPT ![p].pc = IF keyFile.exists THEN "read"
                                  ELSE "openSeed"]
    /\ UNCHANGED <<keyFile, keys>>
    /\ keysFrame

\* loadRegistry: writeFileSync(filePath, seed) opens the file, which
\* creates it or empties it
OpenSeed(p) ==
    /\ kp[p].pc = "openSeed"
    /\ keyFile' = [exists |-> TRUE, text |-> <<>>]
    /\ kp' = [kp EXCEPT ![p].pc = "writeSeed"]
    /\ UNCHANGED keys
    /\ keysFrame

\* what ensureAgentKey does with the registry it loaded: the key material
\* of the existing identity is returned, or a key pair is generated and the
\* call goes on to saveRegistry
withLoaded(p, identities, after) ==
    LET agentId == normalizeAgentId(kp[p].agentId)
        existing == existingIdentity(identities, agentId)
        pair == generateKeyPairSync(keys.generated + 1)
        identity == createAgentIdentity(agentId, pair.publicKey, clock)
    IN IF existing # <<>>
       THEN returnKeyMaterial(p, existing[1], after)
       ELSE /\ kp' = [kp EXCEPT
                         ![p].pc = "openSave",
                         ![p].registry = Append(identities, identity)]
            /\ keys' = [keys EXCEPT !.generated = @ + 1]

\* loadRegistry: the seed is written and returned
WriteSeed(p) ==
    /\ kp[p].pc = "writeSeed"
    /\ keyFile' = [exists |-> TRUE, text |-> <<(<<>>)>>]
    /\ withLoaded(p, <<>>, <<>>)
    /\ keysFrame

\* loadRegistry: JSON.parse(readFileSync(filePath)); the parse throws on a
\* file that is empty
ReadRegistry(p) ==
    /\ kp[p].pc = "read"
    /\ IF keyFile.text = <<>>
       THEN /\ kp' = [kp EXCEPT ![p] = IdleKeyProc]
            /\ keys' = [keys EXCEPT !.thrown = @ + 1]
       ELSE withLoaded(p, keyFile.text[1], keyFile.text[1])
    /\ UNCHANGED keyFile
    /\ keysFrame

\* saveRegistry: writeFileSync opens the file, which empties it
OpenSave(p) ==
    /\ kp[p].pc = "openSave"
    /\ keyFile' = [exists |-> TRUE, text |-> <<>>]
    /\ kp' = [kp EXCEPT ![p].pc = "writeSave"]
    /\ UNCHANGED keys
    /\ keysFrame

\* saveRegistry: the registry with the new identity is written; the call
\* returns the new key material
WriteSave(p) ==
    /\ kp[p].pc = "writeSave"
    /\ keyFile' = [exists |-> TRUE, text |-> <<kp[p].registry>>]
    /\ returnKeyMaterial(p, kp[p].registry[Len(kp[p].registry)],
                         kp[p].registry)
    /\ keysFrame

\* between calls, the status of an identity in keys/registry.json is set
\* to rotated or revoked
SetKeyStatus(i, status) ==
    /\ \A p \in Procs : kp[p].pc = "idle"
    /\ i \in 1..Len(registryIdentities(keyFile))
    /\ keyFile.text[1][i].status = "active"
    /\ keyFile' = [keyFile EXCEPT
                      !.text[1][i].status = status,
                      !.text[1][i].revoked_at =
                          IF status = "revoked" THEN <<clock>> ELSE <<>>]
    /\ UNCHANGED <<kp, keys>>
    /\ keysFrame

NextKeys ==
    \/ \E p \in Procs, agentId \in AgentIdInputs :
          EnsureAgentKeyCall(p, agentId)
    \/ \E p \in Procs : ExistsRegistry(p)
    \/ \E p \in Procs : OpenSeed(p)
    \/ \E p \in Procs : WriteSeed(p)
    \/ \E p \in Procs : ReadRegistry(p)
    \/ \E p \in Procs : OpenSave(p)
    \/ \E p \in Procs : WriteSave(p)
    \/ \E i \in 1..MaxKeyCalls, status \in {"rotated", "revoked"} :
          SetKeyStatus(i, status)

SpecKeys == Init /\ [][NextKeys]_vars

\* ------------------------------------------------------------------------
\* buildSignedEvent, one change of the event, verifyBytes
\* ------------------------------------------------------------------------
\* the inputs of buildSignedEvent
BuildEventInputs ==
    [trace_id : {TraceId},
     event_id : 1..MaxEventId,
     event_type : {"proposal_created"},
     created_at : 0..MaxClock,
     role : {"planner", "executor"},
     payload_type : {"proposal", decomposedString},
     payload : {Payload("proposal")},
     claims : {<<>>, <<claimId>>},
     artifacts : {<<>>, <<outputArtifact>>},
     prev_event_hash : {GENESIS_PREV_HASH, sha256Hex("outputPayload")}]

\* values a field of an event is changed to
otherValues(field) ==
    CASE field = "schema_version" -> {"2.0.0"}
      [] field = "trace_id" -> {OtherTraceId}
      [] field = "event_id" -> {extraEventId}
      [] field = "event_type" -> {"claim_issued"}
      [] field = "created_at" -> {MaxClock + 1}
      [] field = "actor" -> {<<actorFromContext("critic")>>}
      [] field = "payload_hash" -> {hashCanonical(<<Payload("tampered")>>)}
      [] field = "payload_type" ->
            {"proposal", decomposedString, composedString}
      [] field = "claims" -> {<<(<<>>)>>, <<(<<claimId>>)>>}
      [] field = "artifacts" -> {<<(<<>>)>>, <<(<<outputArtifact>>)>>}
      [] field = "prev_event_hash" -> {GENESIS_PREV_HASH, forgedPrevHash}
      [] field = "event_hash" -> {forgedPrevHash}
      [] field = "payload" -> {<<Payload("tampered")>>}

\* the signed bytes of the event with another trace_id
otherBytes(bytes) == [bytes EXCEPT !.trace_id = OtherTraceId]

\* values a part of the signature envelope is changed to: the hash of
\* other bytes; another spelling of the same signature bytes, the
\* signature another key makes of the bytes, the signature the key makes
\* of other bytes
otherEnvelopeValues(part, signature, key) ==
    LET bytes == fromBase64(signature.signature_b64).msg
    IN CASE part = "signed_bytes_hash" -> {sha256Hex(otherBytes(bytes))}
         [] part = "signature_b64" ->
               {[signature.signature_b64 EXCEPT !.spelling = "url-safe"],
                toBase64(sign(bytes, privateKeyOf("intruder"))),
                toBase64(sign(otherBytes(bytes), key))}

\* verifyBytes(publicKey, canonicalSignedBytes(event), event.signature)
\* with the public key of the signer
verifiesUnder(e, agent_id) ==
    verifyBytes(publicKeyOf(agent_id), canonicalSignedBytes(e),
                e.signature[1])

\* buildSignedEvent(input) with the private key of the actor's agent
BuildSignedEvent(input) ==
    LET agent_id == defaultAgentIdentity(input.role)
        e == buildSignedProtocolEvent(
                 [trace_id |-> input.trace_id, event_id |-> input.event_id,
                  event_type |-> input.event_type,
                  created_at |-> input.created_at,
                  actor |-> actorFromContext(input.role),
                  payload_type |-> input.payload_type,
                  payload |-> input.payload, claims |-> input.claims,
                  artifacts |-> input.artifacts,
                  prev_event_hash |-> input.prev_event_hash,
                  private_key_pem |-> privateKeyOf(agent_id)])
    IN /\ sig.pc = "idle"
       /\ sig' = [pc |-> "built", signer |-> agent_id, event |-> <<e>>,
                  changed |-> "", valid |-> verifiesUnder(e, agent_id)]
       /\ UNCHANGED <<registry, blobs, flow, edit, clock, run, dirty>>
       /\ UNCHANGED <<metas, wr, calls, keyFile, kp, keys, audit, reports>>
       /\ UNCHANGED lvars

\* the event built is replaced by the changed one and verified again
changeSignedEvent(e, what) ==
    /\ sig.pc = "built"
    /\ e # sig.event[1]
    /\ sig' = [sig EXCEPT !.pc = "changed", !.event = <<e>>,
                          !.changed = what,
                          !.valid = verifiesUnder(e, sig.signer)]
    /\ UNCHANGED <<registry, blobs, flow, edit, clock, run, dirty>>
    /\ UNCHANGED <<metas, wr, calls, keyFile, kp, keys, audit, reports>>
    /\ UNCHANGED lvars

\* event[field] = value, every other field kept
ChangeEventField(field, value) ==
    changeSignedEvent([sig.event[1] EXCEPT ![field] = value], field)

\* event.signature[part] = value, every other field kept
ChangeSignatureEnvelope(part, value) ==
    changeSignedEvent([sig.event[1] EXCEPT
                          !.signature = <<[@[1] EXCEPT ![part] = value]>>],
                      part)

NextSign ==
    \/ \E input \in BuildEventInputs : BuildSignedEvent(input)
    \/ \E field \in signedFields \cup {"event_hash", "payload"} :
          \E value \in otherValues(field) :
              sig.pc = "built" /\ ChangeEventField(field, value)
    \/ \E part \in {"signed_bytes_hash", "signature_b64"} :
          \E value \in otherEnvelopeValues(
                           part,
                           IF sig.pc = "built" THEN sig.event[1].signature[1]
                           ELSE signBytes(privateKeyOf(""),
                                          [trace_id |-> TraceId]),
                           privateKeyOf(sig.signer)) :
              ChangeSignatureEnvelope(part, value)

SpecSign == Init /\ [][NextSign]_vars

\* ------------------------------------------------------------------------
\* Properties
\* ------------------------------------------------------------------------
\* the lines of a file that are not empty
NonEmptyLines(file) == SelectSeq(split(file), LAMBDA l : Len(l) > 0)

\* the line is the JSON text of exactly one event
IsEventLine(l) ==
    Len(l) = 2 /\ l[1].b = "open" /\ l[2].b = "close" /\ l[1].e = l[2].e

\* every non-empty line of the file is one event
AllLinesParse(file) ==
    \A i \in 1..Len(NonEmptyLines(file)) : IsEventLine(NonEmptyLines(file)[i])

\* the index of the first malformed line, or one more than the number of lines
FirstMalformed(lines) ==
    IF \E i \in 1..Len(lines) : Len(lines[i]) > 0 /\ ~IsEventLine(lines[i])
    THEN CHOOSE i \in 1..Len(lines) :
            /\ Len(lines[i]) > 0 /\ ~IsEventLine(lines[i])
            /\ \A j \in 1..(i - 1) : Len(lines[j]) = 0 \/ IsEventLine(lines[j])
    ELSE Len(lines) + 1

\* the non-empty lines before the first malformed line
GoodLines(file) ==
    SelectSeq(SubSeq(split(file), 1, FirstMalformed(split(file)) - 1),
              LAMBDA l : Len(l) > 0)

\* the events of the non-empty lines before the first malformed line
GoodEvents(file) == [i \in 1..Len(GoodLines(file)) |-> GoodLines(file)[i][1].e]

IsPrefix(s, t) == Len(s) <= Len(t) /\ SubSeq(t, 1, Len(s)) = s

InLockedSequence(p) == pc[p] \in {"check", "append", "save"}

\* C1: every event whose appendEvent call returned stays among the
\* well-formed events of events.jsonl, whatever appendEvent and readEvents
\* calls (with malformed-tail recovery) follow.
C1_CommittedEventsStay ==
    \A i \in 1..Len(committed) :
        \E j \in 1..Len(GoodEvents(events)) : GoodEvents(events)[j] = committed[i]

\* C2: immediately after a successful appendEvent the persisted session has
\* head_event_hash = event.event_hash, event_count = number of event lines
\* of events.jsonl, and artifact_count raised by the number of artifacts.
C2_AppendInvariant ==
    [][\A p \in Procs :
        (pc[p] = "save" /\ pc'[p] = "idle" /\ outcome' = "ok") =>
            /\ session'.head_event_hash = ev[p].event_hash
            /\ session'.event_count = Len(NonEmptyLines(events'))
            /\ session'.artifact_count = session.artifact_count + ev[p].artifacts
      ]_vars

\* C3: at most one process is between loading the session and saving it,
\* and the lockfile of that process exists all the while, so that no other
\* process enters.
C3_MutualExclusion ==
    /\ \A p, q \in Procs : p # q => ~(InLockedSequence(p) /\ InLockedSequence(q))
    /\ \A p \in Procs : InLockedSequence(p) => lock = p

C3_Witness ==
    \E p, q \in Procs :
        p # q /\ pc[p] = "save" /\ lock = p /\ pc[q] = "idle"
              /\ outcome = "timeout"

\* C4: appendEvent throws exactly when the event's trace_id is not the
\* target trace, its prev_event_hash is not the session's head, or an event
\* of the ledger has its event_id; a call that throws adds no line to
\* events.jsonl and leaves trace.meta.json as it was.
C4_Rejection ==
    [][\A p \in Procs :
        (pc[p] = "check" /\ pc'[p] \in {"idle", "append"}) =>
            LET mustReject ==
                    \/ ev[p].trace_id # TraceId
                    \/ ev[p].prev_event_hash # session.head_event_hash
                    \/ \E i \in 1..Len(GoodEvents(events)) :
                          GoodEvents(events)[i].event_id = ev[p].event_id
                rejected ==
                    /\ pc'[p] = "idle"
                    /\ outcome' \in {"trace_mismatch", "head_mismatch",
                                     "duplicate"}
            IN /\ mustReject <=> rejected
               /\ rejected =>
                    /\ session' = session
                    /\ IsPrefix(events', events)
                    /\ GoodEvents(events') = GoodEvents(events)
      ]_vars

C4_Witness ==
    \E p \in Procs :
        /\ pc[p] = "idle" /\ outcome = "duplicate"
        /\ Len(GoodEvents(events)) >= 1
        /\ session.event_count >= 1

\* C5: without crashes, after createTrace and any appendEvent calls, the
\* lines of events.jsonl form a chain: the first event's prev_event_hash is
\* GENESIS_PREV_HASH and every later one's is the event_hash of the line
\* before it.
C5_HashChainContinuity ==
    LET lines == NonEmptyLines(events)
    IN \A i \in 1..Len(lines) :
          /\ IsEventLine(lines[i])
          /\ lines[i][1].e.prev_event_hash =
                IF i = 1 THEN GENESIS_PREV_HASH
                ELSE lines[i - 1][1].e.event_hash

C5_Witness ==
    /\ Len(NonEmptyLines(events)) >= 2
    /\ outcome = "head_mismatch"

\* C6: after a successful appendEvent (also one that follows the truncation
\* of a malformed tail) every non-empty line of events.jsonl is exactly one
\* event, and the last line is the appended event.
C6_EveryLineIsOneEvent ==
    [][\A p \in Procs :
        (pc[p] = "save" /\ pc'[p] = "idle" /\ outcome' = "ok") =>
            /\ AllLinesParse(events')
            /\ Len(NonEmptyLines(events')) >= 1
            /\ NonEmptyLines(events')[Len(NonEmptyLines(events'))]
                  = <<OpenByte(ev[p]), CloseByte(ev[p])>>
      ]_vars

\* C7: once an append stopped between the line and the session metadata,
\* no appendEvent call passes the preconditions any more, and events.jsonl
\* never has two events with the same prev_event_hash.
C7_NoForkAfterInterruptedAppend ==
    interrupted =>
        /\ \A p \in Procs : pc[p] \notin {"append", "save"}
        /\ \A i, j \in 1..Len(GoodEvents(events)) :
              i # j => GoodEvents(events)[i].prev_event_hash
                          # GoodEvents(events)[j].prev_event_hash

\* C8: event_count of the session never decreases, and whenever no append
\* is between its line and its save it is the number of event lines, under
\* every interleaving of appendEvent and updateTraceStatus.
C8_EventCountMonotonicAndExact ==
    [][/\ session'.event_count >= session.event_count
       /\ (\A p \in Procs : pc'[p] # "save") =>
              session'.event_count = Len(NonEmptyLines(events'))
      ]_vars

C11_TailRecoveryIdempotent ==
    (/\ lastRead.called /\ lastRead.recover
     /\ lastRead.before.called /\ lastRead.before.recover
     /\ lastRead.before.malformedFound)
    => /\ lastRead.parsed = lastRead.before.parsed
       /\ lastRead.file = lastRead.before.file
       /\ events = lastRead.before.file

C11_Witness ==
    /\ lastRead.called /\ lastRead.recover
    /\ lastRead.before.called /\ lastRead.before.recover
    /\ lastRead.before.malformedFound
    /\ Len(lastRead.before.parsed) >= 1
    /\ Len(lastRead.parsed) >= 1

\* C12: the trace runProtocolFlow and the two verification events of the
\* auditor leave, verified under the default profile before anything was
\* edited, has verification_status "pass", no failure and no warning.
C12_GoodPath ==
    (/\ run.done /\ ~dirty /\ edit = NoEdit
     /\ flow = Len(FlowScript)
     /\ run.policy_profile = "default")
    => /\ ~run.threw
       /\ run.verification_status = "pass"
       /\ run.failures = <<>>
       /\ run.warnings = <<>>

C12_Witness ==
    /\ run.done /\ ~dirty /\ edit = NoEdit
    /\ flow = Len(FlowScript)
    /\ run.policy_profile = "default"
    /\ ~run.allow_incomplete_finalization
    /\ run.event_count = Len(FlowScript)
    /\ run.verification_status = "pass"

\* a verifyTrace run returned a report
Reported == run.done /\ ~run.threw

\* C13: in every report, verification_status is "fail" iff failures is not
\* empty, "pass-with-warnings" iff failures is empty and warnings is not,
\* and "pass" iff both are empty
C13_VerdictRule ==
    Reported =>
        /\ run.verification_status = "fail" <=> run.failures # <<>>
        /\ run.verification_status = "pass-with-warnings"
               <=> (run.failures = <<>> /\ run.warnings # <<>>)
        /\ run.verification_status = "pass"
               <=> (run.failures = <<>> /\ run.warnings = <<>>)

\* a report with a failure and a warning, and so the verdict "fail"
C13_Witness ==
    /\ Reported
    /\ run.failures # <<>>
    /\ run.warnings # <<>>
    /\ run.verification_status = "fail"

\* the check_ids of the checks a run completed, in the order it ran them
checksRun == [i \in 1..Len(run.checks) |-> run.checks[i].check_id]

\* C14: every verifyTrace run executes the ten checks of the catalog, each
\* once and in the catalog's order, whatever an earlier check found
C14_AllChecksInOrder == run.done => checksRun = checkCatalog

\* C15: verifyTrace returns a report for every sequence of lines that
\* parse as JSON; it does not throw because of what the trace holds
C15_NeverThrowsOnTraceContent == run.done => ~run.threw

\* a report without the fields that may differ between two runs
withoutRunFields(report) == [report EXCEPT !.verified_at = 0]

\* C16: a verifyTrace run on the trace, the artifact store, the key
\* registry and the inputs of the run before it returns the report of the
\* run before it, but for report_id, verified_at and the elapsed times
C16_VerifierIdempotent ==
    [][(/\ Reported /\ ~dirty
        /\ run'.done /\ ~run'.threw
        /\ run'.policy_profile = run.policy_profile
        /\ run'.allow_incomplete_finalization
               = run.allow_incomplete_finalization)
       => withoutRunFields(run') = withoutRunFields(run)]_vars

\* what is stored is the complete trace of the protocol run and the two
\* verification events with only the payload of its proposal_created
\* event replaced
payloadOfProposalReplaced ==
    /\ flow = Len(FlowScript)
    /\ edit.op = "MutatePayload"
    /\ FlowScript[edit.line].event_type = "proposal_created"

\* C17: verifyTrace on a valid complete trace in which only the payload of
\* the proposal_created event was replaced reports a SIG_INVALID failure
C17_PayloadMutation ==
    (run.done /\ payloadOfProposalReplaced)
    => /\ Reported
       /\ \E i \in 1..Len(run.failures) :
             run.failures[i].failure_code = "SIG_INVALID"

\* the report has a critical failure of CHK_SIGNATURE_VALIDITY with the
\* code for the event
signatureFailure(code, event_id) ==
    \E i \in 1..Len(run.failures) :
        /\ run.failures[i].failure_code = code
        /\ run.failures[i].severity = "critical"
        /\ run.failures[i].verification_step = "CHK_SIGNATURE_VALIDITY"
        /\ run.failures[i].event_id = event_id

\* the registry has an identity for the key id of the event's actor
keyResolves(e) ==
    /\ e.actor # <<>>
    /\ \E identity \in registry : identity.key_id = e.actor[1].key_id

\* the signature of the event is the one the holder of the private key of
\* the actor's registered key makes over the event's signed fields
signedByActorKey(e) ==
    /\ e.actor # <<>>
    /\ e.signature # <<>>
    /\ \E identity \in registry :
          /\ identity.key_id = e.actor[1].key_id
          /\ e.signature[1] =
                signBytes([pair |-> identity.public_key.pair,
                           half |-> "private"],
                          [f \in signedFields |-> e[f]])

\* the events of the stored trace whose type requires a signature
requiredSignedEvents ==
    LET evs == ParsedEvents
    IN {evs[j] : j \in {k \in 1..Len(evs) :
                           evs[k].event_type \in requiredSignedEventTypes}}

\* C18: in every report, an event of a required-signed type without
\* signature has a critical SIG_MISSING failure, one whose actor.key_id
\* resolves to no public key or whose signature does not verify over its
\* signed fields has a critical SIG_INVALID failure, and the events
\* recorded as signature-valid are exactly those that hit none of these
C18_SignatureValidity ==
    Reported =>
        /\ \A e \in requiredSignedEvents :
              /\ e.signature = <<>> => signatureFailure("SIG_MISSING", e.event_id)
              /\ (e.signature # <<>> /\ ~keyResolves(e))
                     => signatureFailure("SIG_INVALID", e.event_id)
              /\ (e.signature # <<>> /\ keyResolves(e) /\ ~signedByActorKey(e))
                     => signatureFailure("SIG_INVALID", e.event_id)
              /\ e.event_id \in run.signatureValidEvents
                     <=> signedByActorKey(e)
        /\ run.signatureValidEvents
               \subseteq {e.event_id : e \in requiredSignedEvents}

\* a report on a trace with a forged signature on a required-signed event:
\* SIG_INVALID for that event, the others recorded as signature-valid
C18_Witness ==
    /\ Reported
    /\ edit.op = "ForgeSignature"
    /\ \E e \in requiredSignedEvents :
          /\ e.event_id = edit.line
          /\ signatureFailure("SIG_INVALID", e.event_id)
          /\ e.event_id \notin run.signatureValidEvents
    /\ run.signatureValidEvents # {}

\* the signature of an event whose type is outside the required-signed set
\* was edited by the operation
editedNotRequired(op) ==
    /\ edit.op = op
    /\ edit.field = "signature"
    /\ FlowScript[edit.line].event_type \notin requiredSignedEventTypes

\* the report has a failure for the edited event
failureForEdited ==
    \E i \in 1..Len(run.failures) : run.failures[i].event_id = edit.line

\* C19: for an event of a type outside the required-signed set, a missing
\* signature gives no failure for the event, and a signature that is
\* present and does not verify over the signed fields gives a failure
C19_NotRequiredSigned ==
    Reported =>
        /\ editedNotRequired("DeleteField") => ~failureForEdited
        /\ editedNotRequired("ForgeSignature") => failureForEdited

\* the references to artifacts in the stored trace: the event_id of the
\* event and the artifact_hash of the descriptor
artifactReferences ==
    LET evs == ParsedEvents
    IN UNION {{[event_id |-> evs[j].event_id,
                artifact_hash |-> evs[j].artifacts[1][k]] :
                  k \in 1..Len(evs[j].artifacts[1])} :
              j \in {i \in 1..Len(evs) : evs[i].artifacts # <<>>}}

\* a blob file for the hash exists in the store
blobExists(artifact_hash) ==
    \E blob \in blobs : blob.artifact_hash = artifact_hash

\* the ARTIFACT_MISSING failures of the report for the reference
artifactMissing(ref) ==
    {i \in 1..Len(run.failures) :
        /\ run.failures[i].failure_code = "ARTIFACT_MISSING"
        /\ run.failures[i].event_id = ref.event_id
        /\ run.failures[i].artifact_hash = <<ref.artifact_hash>>}

\* C20: in every report, each artifact reference of the trace whose blob is
\* not in the store has an ARTIFACT_MISSING failure of severity high with
\* its event_id and artifact_hash, and a reference whose blob exists has
\* no ARTIFACT_MISSING failure
C20_ArtifactExistence ==
    Reported =>
        \A ref \in artifactReferences :
            IF blobExists(ref.artifact_hash)
            THEN artifactMissing(ref) = {}
            ELSE \E i \in artifactMissing(ref) :
                    /\ run.failures[i].severity = "high"
                    /\ run.failures[i].verification_step
                           = "CHK_ARTIFACT_EXISTENCE"

\* a report after a blob was unlinked: a reference without blob, reported,
\* and a reference whose blob exists
C20_Witness ==
    /\ Reported
    /\ edit.op = "UnlinkBlob"
    /\ \E ref \in artifactReferences :
          ~blobExists(ref.artifact_hash) /\ artifactMissing(ref) # {}
    /\ \E ref \in artifactReferences : blobExists(ref.artifact_hash)

\* the report has an ARTIFACT_HASH_MISMATCH failure of severity high for
\* the hash
hashMismatchReported(artifact_hash) ==
    \E i \in 1..Len(run.failures) :
        /\ run.failures[i].failure_code = "ARTIFACT_HASH_MISMATCH"
        /\ run.failures[i].severity = "high"
        /\ run.failures[i].verification_step = "CHK_ARTIFACT_HASH_MATCH"
        /\ run.failures[i].artifact_hash = <<artifact_hash>>

\* C21: in every report, a referenced artifact hash whose blob exists has
\* an ARTIFACT_HASH_MISMATCH failure of severity high iff the SHA-256 of
\* the bytes of the blob is not the hash
C21_ArtifactHashMatch ==
    Reported =>
        \A ref \in artifactReferences :
            \A blob \in blobs :
                blob.artifact_hash = ref.artifact_hash =>
                    (hashMismatchReported(ref.artifact_hash)
                        <=> sha256Hex(blob.bytes) # ref.artifact_hash)

\* a report after a referenced blob was overwritten: the mismatch is
\* reported for its hash and not for the hash of the blob left alone
C21_Witness ==
    /\ Reported
    /\ edit.op = "OverwriteBlob"
    /\ \E ref \in artifactReferences :
          /\ blobExists(ref.artifact_hash)
          /\ hashMismatchReported(ref.artifact_hash)
    /\ \E ref \in artifactReferences :
          /\ blobExists(ref.artifact_hash)
          /\ ~hashMismatchReported(ref.artifact_hash)

\* the claim_issued events of the stored trace
claimEvents ==
    LET evs == ParsedEvents
    IN {evs[j] : j \in {k \in 1..Len(evs) :
                           evs[k].event_type = "claim_issued"}}

\* the event has a claim id: in its payload, or the first of its claims
hasClaimId(e) ==
    \/ e.payload # <<>> /\ e.payload[1].claim_id # <<>>
    \/ e.claims # <<>> /\ e.claims[1] # <<>>

\* the evidence artifact hashes of a claim_issued event: those of its
\* payload, or else those of its artifacts
evidenceOf(e) ==
    IF e.payload # <<>> /\ e.payload[1].evidence_artifacts # <<>>
    THEN e.payload[1].evidence_artifacts[1]
    ELSE IF e.artifacts # <<>> THEN e.artifacts[1] ELSE <<>>

\* the hash passed the existence check and the hash-match check: an event
\* of the trace refers to it, its blob exists and has the bytes of the hash
passedArtifactChecks(artifact_hash) ==
    /\ \E ref \in artifactReferences : ref.artifact_hash = artifact_hash
    /\ \E blob \in blobs :
          /\ blob.artifact_hash = artifact_hash
          /\ sha256Hex(blob.bytes) = artifact_hash

\* what a claim_issued event needs to be proven
claimProven(e) ==
    /\ hasClaimId(e)
    /\ evidenceOf(e) # <<>>
    /\ \A k \in 1..Len(evidenceOf(e)) : passedArtifactChecks(evidenceOf(e)[k])
    /\ signedByActorKey(e)

\* the report has a CLAIM_UNPROVEN failure of severity high for the event
claimUnproven(event_id) ==
    \E i \in 1..Len(run.failures) :
        /\ run.failures[i].failure_code = "CLAIM_UNPROVEN"
        /\ run.failures[i].severity = "high"
        /\ run.failures[i].verification_step = "CHK_CLAIM_EVIDENCE_SUFFICIENCY"
        /\ run.failures[i].event_id = event_id

\* C22: in every report, a claim_issued event without claim id, without
\* evidence artifact hash, with an evidence hash that did not pass the
\* existence and hash-match checks, or that did not pass signature
\* validity, has a CLAIM_UNPROVEN failure of severity high
C22_ClaimEvidence ==
    Reported =>
        \A e \in claimEvents : ~claimProven(e) => claimUnproven(e.event_id)

\* a report on a trace whose claim_issued event has no evidence left
C22_Witness ==
    /\ Reported
    /\ edit.op = "ClearEvidence"
    /\ \E e \in claimEvents :
          /\ hasClaimId(e)
          /\ evidenceOf(e) = <<>>
          /\ claimUnproven(e.event_id)

\* the claim_challenged events of the stored trace that name the claim id
\* of a claim_issued event which is not resolved
unresolvedChallenges ==
    LET evs == ParsedEvents
    IN {c \in {evs[j] : j \in 1..Len(evs)} :
          /\ c.event_type = "claim_challenged"
          /\ c.payload # <<>>
          /\ c.payload[1].challenged_claim_id # <<>>
          /\ \E e \in claimEvents :
                /\ e.payload # <<>>
                /\ e.payload[1].claim_id = c.payload[1].challenged_claim_id
                /\ e.payload[1].resolved # <<TRUE>>}

\* the report has a CLAIM_DISPUTED warning for the event
claimDisputed(event_id) ==
    \E i \in 1..Len(run.warnings) :
        /\ run.warnings[i].warning_code = "CLAIM_DISPUTED"
        /\ run.warnings[i].severity = "medium"
        /\ run.warnings[i].event_id = event_id

\* the trace is the complete one of the protocol run with one challenge
\* of its claim appended before the verification events
challengedTrace ==
    /\ edit.op = "AppendChallengeEvent"
    /\ flow = Len(FlowScript)
    /\ run.event_count = Len(FlowScript) + 1

emittableBy(role) ==
    CASE role = "planner" -> {"session_initialized", "proposal_created"}
      [] role = "executor" ->
            {"tool_intent_signed", "tool_execution_started",
             "tool_execution_completed", "tool_execution_failed",
             "artifact_recorded", "claim_issued", "final_statement_signed"}
      [] role = "critic" -> {"proposal_reviewed", "claim_challenged"}
      [] role = "auditor" ->
            {"verification_run_started", "verification_run_completed"}
      [] OTHER -> {}

\* the report has a ROLE_POLICY_VIOLATION failure of severity medium from
\* CHK_ROLE_POLICY_CONFORMANCE for the event
rolePolicyViolation(event_id) ==
    \E i \in 1..Len(run.failures) :
        /\ run.failures[i].failure_code = "ROLE_POLICY_VIOLATION"
        /\ run.failures[i].severity = "medium"
        /\ run.failures[i].verification_step = "CHK_ROLE_POLICY_CONFORMANCE"
        /\ run.failures[i].event_id = event_id

\* C24: in every report, an event has a ROLE_POLICY_VIOLATION failure of
\* severity medium from CHK_ROLE_POLICY_CONFORMANCE iff its event_type is
\* not among the types its actor's role may emit
C24_RolePolicy ==
    Reported =>
        LET evs == ParsedEvents
        IN \A j \in 1..Len(evs) :
            LET e == evs[j]
            IN /\ e.actor # <<>>
               /\ rolePolicyViolation(e.event_id)
                    <=> e.event_type \notin emittableBy(e.actor[1].role)

\* a report on a trace where the planner's proposal was given the role
\* auditor, and has the violation
C24_Witness ==
    /\ Reported
    /\ edit.op = "ChangeActor" /\ edit.field = "role"
    /\ \E j \in 1..Len(ParsedEvents) :
          /\ ParsedEvents[j].event_type = "proposal_created"
          /\ ParsedEvents[j].actor # <<>>
          /\ ParsedEvents[j].actor[1].role = "auditor"
          /\ rolePolicyViolation(ParsedEvents[j].event_id)

\* how many events of the stored trace have the type
countOfType(event_type) ==
    Cardinality({j \in 1..Len(ParsedEvents) :
                    ParsedEvents[j].event_type = event_type})

\* the report has a failure attributed to CHK_FINALIZATION_INTEGRITY
finalizationFailure ==
    \E i \in 1..Len(run.failures) :
        run.failures[i].verification_step = "CHK_FINALIZATION_INTEGRITY"

\* C25: in every report, a trace with no final_statement_signed event, a
\* trace with two or more of them, and a trace with no
\* verification_run_started event has a failure attributed to
\* CHK_FINALIZATION_INTEGRITY
C25_ExactlyOneFinalStatement ==
    Reported =>
        /\ countOfType("final_statement_signed") # 1 => finalizationFailure
        /\ countOfType("verification_run_started") = 0 => finalizationFailure

\* the report has a SCHEMA_INVALID failure from CHK_KEY_STATUS for the event
keyStatusFailure(event_id) ==
    \E i \in 1..Len(run.failures) :
        /\ run.failures[i].failure_code = "SCHEMA_INVALID"
        /\ run.failures[i].verification_step = "CHK_KEY_STATUS"
        /\ run.failures[i].event_id = event_id

\* the identities of the registry that have the key id of the event's actor
identitiesOf(e) ==
    {identity \in registry : identity.key_id = e.actor[1].key_id}

\* the key of the event's actor is one of the agent, revoked at a time
revokedKeyOf(e) ==
    {identity \in identitiesOf(e) :
        /\ identity.agent_id = e.actor[1].agent_id
        /\ identity.status = "revoked"
        /\ identity.revoked_at # <<>>}

\* C26: in every report, an event whose actor.key_id has no identity in the
\* registry, or one with another agent_id, has a SCHEMA_INVALID failure from
\* CHK_KEY_STATUS; an event with a revoked key has one iff its created_at
\* is at or after the identity's revoked_at
C26_KeyStatus ==
    Reported =>
        LET evs == ParsedEvents
        IN \A j \in 1..Len(evs) :
            LET e == evs[j]
            IN /\ e.actor # <<>>
               /\ identitiesOf(e) = {} => keyStatusFailure(e.event_id)
               /\ \A identity \in identitiesOf(e) :
                     identity.agent_id # e.actor[1].agent_id
                        => keyStatusFailure(e.event_id)
               /\ \A identity \in revokedKeyOf(e) :
                     keyStatusFailure(e.event_id)
                        <=> e.created_at >= identity.revoked_at[1]

\* a report on a trace with two events of one agent whose key was revoked
\* between them: the later one has the failure, the earlier one has not
C26_Witness ==
    /\ Reported
    /\ edit.op = "RevokeIdentity"
    /\ \E j, k \in 1..Len(ParsedEvents) :
          LET e == ParsedEvents[j]
              f == ParsedEvents[k]
          IN /\ e.actor # <<>> /\ f.actor # <<>>
             /\ revokedKeyOf(e) # {}
             /\ revokedKeyOf(f) = revokedKeyOf(e)
             /\ keyStatusFailure(e.event_id)
             /\ ~keyStatusFailure(f.event_id)

\* the event_ids of the lines of the stored trace that carry the event_id
\* of an earlier line
replayedEventIds ==
    LET evs == ParsedEvents
    IN {evs[k].event_id :
          k \in {n \in 1..Len(evs) :
                    \E j \in 1..(n - 1) : evs[j].event_id = evs[n].event_id}}

\* the report has a SCHEMA_INVALID failure from CHK_SCHEMA_CONFORMANCE for
\* the event
schemaFailure(event_id) ==
    \E i \in 1..Len(run.failures) :
        /\ run.failures[i].failure_code = "SCHEMA_INVALID"
        /\ run.failures[i].verification_step = "CHK_SCHEMA_CONFORMANCE"
        /\ run.failures[i].event_id = event_id

\* C27: in every report, a line of the trace that carries the event_id of
\* an earlier line has a SCHEMA_INVALID failure from CHK_SCHEMA_CONFORMANCE;
\* and after appendEvent was called with a copy of an event of the trace,
\* no two lines of the trace carry the same event_id
C27_ReplayDetection ==
    /\ Reported =>
          \A event_id \in replayedEventIds : schemaFailure(event_id)
    /\ edit.op = "AppendReplayedEvent" => replayedEventIds = {}

\* a report on a trace with a copy of its first event appended to the
\* file, which has the failure for the copy
C27_Witness ==
    /\ Reported
    /\ edit.op = "ReplayEvent" /\ edit.line = 1
    /\ ParsedEvents[Len(ParsedEvents)].event_id \in replayedEventIds
    /\ schemaFailure(ParsedEvents[Len(ParsedEvents)].event_id)

\* no process is in writeArtifact
storeQuiet == \A p \in Procs : wr[p].pc = "idle"

\* the pairs of the references list of the sidecar of the hash
linkedPairs(artifact_hash) ==
    IF ~existsSync(metas, artifact_hash) THEN <<>>
    ELSE LET file == fileOf(metas, artifact_hash)
         IN IF file.text = <<>> THEN <<>>
            ELSE [i \in 1..Len(file.text[1].references) |->
                     pairOf(file.text[1].references[i])]

\* the pairs of the calls that returned for the bytes
returnedPairs(bytes) ==
    {pairOf(input) : input \in {c \in calls.returned : c.bytes = bytes}}

\* the blob files whose hash is that of the bytes
blobFilesOf(bytes) ==
    {blob \in blobs : blob.artifact_hash = sha256Hex(bytes)}

\* the elements of a sequence are pairwise distinct
distinctEntries(seq) ==
    \A i, j \in 1..Len(seq) : seq[i] = seq[j] => i = j

\* the elements of a sequence
Range(seq) == {seq[i] : i \in 1..Len(seq)}

\* C28: when the writeArtifact calls were made one after another and all
\* have ended, then for every byte sequence written there is exactly one
\* blob file of its hash, holding the bytes, and the references list of the
\* sidecar has exactly one entry per pair of the calls, however often a
\* pair was repeated
C28_ArtifactDedup ==
    storeQuiet /\ ~calls.overlapped =>
        /\ calls.thrown = {}
        /\ \A input \in calls.returned :
              LET artifact_hash == sha256Hex(input.bytes)
              IN /\ Cardinality(blobFilesOf(input.bytes)) = 1
                 /\ readArtifact(blobs, artifact_hash) = input.bytes
                 /\ distinctEntries(linkedPairs(artifact_hash))
                 /\ Range(linkedPairs(artifact_hash))
                        = returnedPairs(input.bytes)
                 /\ Len(linkedPairs(artifact_hash))
                        = Cardinality(returnedPairs(input.bytes))

\* three calls one after another with the same bytes, two distinct pairs
\* and one pair repeated: one blob and two references
C28_Witness ==
    /\ storeQuiet /\ ~calls.overlapped
    /\ calls.started = MaxArtifactWrites
    /\ \E input \in calls.returned :
          /\ \A c \in calls.returned : c.bytes = input.bytes
          /\ Cardinality(returnedPairs(input.bytes)) = MaxArtifactWrites - 1
          /\ Len(linkedPairs(sha256Hex(input.bytes))) = MaxArtifactWrites - 1
          /\ Cardinality(blobs) = 1

\* C29: when all writeArtifact calls have ended, however their steps were
\* interleaved, there is exactly one blob of the hash of each call's bytes,
\* holding the bytes, and the references list of the sidecar has the pair
\* of every call
C29_ConcurrentWriters ==
    storeQuiet =>
        \A input \in calls.returned \cup calls.thrown :
            /\ Cardinality(blobFilesOf(input.bytes)) = 1
            /\ \A blob \in blobFilesOf(input.bytes) : blob.bytes = input.bytes
            /\ pairOf(input) \in Range(linkedPairs(sha256Hex(input.bytes)))

\* no process is in ensureAgentKey
keysQuiet == \A p \in Procs : kp[p].pc = "idle"

\* the places of a registry where an identity of the agent id stands that
\* is not revoked
nonRevoked(identities, agent_id) ==
    {i \in 1..Len(identities) :
        /\ identities[i].agent_id = agent_id
        /\ identities[i].status # "revoked"}

\* the call reused the first identity of the agent that is not revoked and
\* left the registry as it was
reusedKey(call) ==
    LET found == nonRevoked(call.before, normalizeAgentId(call.agentId))
        first == CHOOSE i \in found : \A j \in found : i <= j
    IN /\ call.key_id = call.before[first].key_id
       /\ call.after = call.before

\* the call appended exactly one identity to the registry: an active one
\* of the agent id, with the key returned, which is a new key
appendedKey(call) ==
    LET new == call.after[Len(call.after)]
    IN /\ Len(call.after) = Len(call.before) + 1
       /\ SubSeq(call.after, 1, Len(call.before)) = call.before
       /\ new.agent_id = normalizeAgentId(call.agentId)
       /\ new.status = "active"
       /\ new.key_id = call.key_id
       /\ \A i \in 1..Len(call.before) :
             call.before[i].key_id # call.key_id

\* C30: when the ensureAgentKey calls were made one after another, a call
\* for an agent id whose lower-cased, trimmed form has an identity that is
\* not revoked returned that identity's key and left the registry
\* unchanged, and any other call appended exactly one new active identity;
\* the registry has at most one identity per agent id that is not revoked,
\* and two calls for an agent id returned the same key_id unless that key
\* was revoked in between
C30_EnsureAgentKeyReuse ==
    ~keys.overlapped =>
        /\ keys.thrown = 0
        /\ \A n \in 1..Len(keys.issued) :
              LET call == keys.issued[n]
              IN IF nonRevoked(call.before,
                               normalizeAgentId(call.agentId)) # {}
                 THEN reusedKey(call)
                 ELSE appendedKey(call)
        /\ keysQuiet =>
              \A agentId \in AgentIdInputs :
                  Cardinality(nonRevoked(registryIdentities(keyFile),
                                         normalizeAgentId(agentId))) <= 1
        /\ \A m, n \in 1..Len(keys.issued) :
              LET first == keys.issued[m]
                  second == keys.issued[n]
              IN m < n /\ normalizeAgentId(first.agentId)
                            = normalizeAgentId(second.agentId)
                 => \/ first.key_id = second.key_id
                    \/ \E i \in 1..Len(second.before) :
                          /\ second.before[i].key_id = first.key_id
                          /\ second.before[i].status = "revoked"

\* three calls one after another for one agent, written in three ways:
\* the second returned the key of the first, which was then revoked, and
\* the third returned a new key
C30_Witness ==
    /\ keysQuiet /\ ~keys.overlapped
    /\ Len(keys.issued) = MaxKeyCalls
    /\ keys.issued[1].agentId = <<"a">>
    /\ keys.issued[2].agentId = <<" ", "a", " ">>
    /\ keys.issued[3].agentId = <<"A">>
    /\ keys.issued[2].key_id = keys.issued[1].key_id
    /\ keys.issued[3].key_id # keys.issued[1].key_id
    /\ Len(registryIdentities(keyFile)) = 2

\* resolveIdentityByKeyId and resolvePublicKeyByKeyId find an identity of
\* the key_id in the registry file
resolvesKeyId(key_id) ==
    \E i \in 1..Len(registryIdentities(keyFile)) :
        registryIdentities(keyFile)[i].key_id = key_id

\* C37: when every ensureAgentKey call has ended, whatever the
\* interleaving of the calls of the processes, every key_id that was
\* returned to a caller is the key_id of an identity of the registry
\* file, so that the key resolves
C37_IssuedKeysResolve ==
    keysQuiet =>
        \A n \in 1..Len(keys.issued) : resolvesKeyId(keys.issued[n].key_id)

\* the CHAIN_BREAK failures of the report
chainBreaks ==
    {i \in 1..Len(run.failures) : run.failures[i].failure_code = "CHAIN_BREAK"}

\* the indexes of the stored trace where prev_event_hash is not the
\* event_hash of the event before (GENESIS_PREV_HASH for the first)
brokenLinks ==
    LET evs == ParsedEvents
    IN {j \in 1..Len(evs) :
           evs[j].prev_event_hash
              # (IF j = 1 THEN GENESIS_PREV_HASH ELSE evs[j - 1].event_hash)}

\* C31: in every report there is at most one CHAIN_BREAK failure; there is
\* one iff some event's prev_event_hash differs from the event_hash before
\* it, and it is critical, from CHK_CHAIN_CONTINUITY, for the first such
\* event; a valid trace with an event other than the last deleted, or with
\* an event of forged prev_event_hash inserted, has one
C31_ChainBreak ==
    Reported =>
        LET evs == ParsedEvents
            links == brokenLinks
        IN /\ Cardinality(chainBreaks) <= 1
           /\ chainBreaks = {} <=> links = {}
           /\ \A i \in chainBreaks :
                 /\ run.failures[i].severity = "critical"
                 /\ run.failures[i].verification_step = "CHK_CHAIN_CONTINUITY"
                 /\ \E j \in links :
                       /\ \A k \in links : j <= k
                       /\ run.failures[i].event_id = evs[j].event_id
           /\ edit.op = "DeleteEvent" /\ edit.line < Len(FlowScript)
                 => chainBreaks # {}
           /\ edit.op = "InsertForgedEvent" => chainBreaks # {}

\* a report on a trace in which a forged copy of an event was inserted
\* far from the original: two links are broken and the one CHAIN_BREAK of
\* the report names the inserted event
C31_Witness ==
    /\ Reported
    /\ edit.op = "InsertForgedEvent"
    /\ Cardinality(brokenLinks) = 2
    /\ Cardinality(chainBreaks) = 1
    /\ \A i \in chainBreaks : run.failures[i].event_id = extraEventId

\* the change left the canonical signed bytes and the signature bytes as
\* they were: a string field replaced by one of the same NFC form while the
\* recorded hash is that of the canonical bytes, or signature_b64 replaced
\* by another spelling of the same bytes
sameBytesAfterChange ==
    LET e == sig.event[1]
    IN \/ /\ sig.changed \in stringFields
          /\ e.signature[1].signed_bytes_hash
                = sha256Hex(canonicalSignedBytes(e))
       \/ /\ sig.changed = "signature_b64"
          /\ e.signature[1].signature_b64.spelling # "encoder"

\* after one change, verifyBytes is false iff the change is one of a signed
\* field or of a part of the envelope and it changed the canonical signed
\* bytes, the recorded hash or the signature bytes
validIffBytesKept ==
    sig.pc = "changed" =>
        (sig.valid <=> \/ sig.changed \notin signedFields
                                           \cup {"signed_bytes_hash",
                                                 "signature_b64"}
                       \/ sameBytesAfterChange)

\* the signed fields and the two parts of the signature envelope that the
\* signature is to protect
protectedBySignature == signedFields \cup {"signed_bytes_hash", "signature_b64"}

\* C32: an event built by buildSignedEvent verifies under the signer's
\* public key; after a change of one signed field, of signed_bytes_hash or
\* of signature_b64, verifyBytes over the event's signed fields is false,
\* and after a change of event_hash or of a field that is not signed it is
\* still true
C32_SignVerify ==
    /\ sig.pc = "built" => sig.valid
    /\ sig.pc = "changed" =>
           (sig.valid <=> sig.changed \notin protectedBySignature)

\* the failures of the report from CHK_FINALIZATION_INTEGRITY with the code
finalizationFailures(code) ==
    {i \in 1..Len(run.failures) :
        /\ run.failures[i].verification_step = "CHK_FINALIZATION_INTEGRITY"
        /\ run.failures[i].failure_code = code}

\* some final_statement_signed of the stored trace is at a later index
\* than a verification_run_completed
finalAfterCompletion ==
    LET evs == ParsedEvents
    IN \E i, j \in 1..Len(evs) :
          /\ evs[i].event_type = "final_statement_signed"
          /\ evs[j].event_type = "verification_run_completed"
          /\ i > j

\* the stored trace has no verification_run_completed
completionAbsent ==
    LET evs == ParsedEvents
    IN \A j \in 1..Len(evs) :
          evs[j].event_type # "verification_run_completed"

\* in every report there is a ROLE_POLICY_VIOLATION from
\* CHK_FINALIZATION_INTEGRITY iff the first final_statement_signed of the
\* trace is after its first verification_run_completed
orderingByFirstIndexes ==
    Reported =>
        LET evs == ParsedEvents
            finals == {j \in 1..Len(evs) :
                          evs[j].event_type = "final_statement_signed"}
            completions == {j \in 1..Len(evs) :
                               evs[j].event_type
                                  = "verification_run_completed"}
        IN finalizationFailures("ROLE_POLICY_VIOLATION") # {}
              <=> /\ finals # {} /\ completions # {}
                  /\ \A i \in finals : \E j \in completions : j < i

\* C33: in every report on a trace where some final_statement_signed is
\* after a verification_run_completed there is a ROLE_POLICY_VIOLATION from
\* CHK_FINALIZATION_INTEGRITY; when verification_run_completed is absent
\* the check gives a failure for it unless allow_incomplete_finalization,
\* and then no such failure and the warning FINALIZATION_INCOMPLETE
C33_FinalizationOrdering ==
    Reported =>
        /\ finalAfterCompletion
              => finalizationFailures("ROLE_POLICY_VIOLATION") # {}
        /\ completionAbsent /\ ~run.allow_incomplete_finalization
              => \E i \in finalizationFailures("SCHEMA_INVALID") :
                    run.failures[i].message
                       = "Missing verification_run_completed event"
        /\ completionAbsent /\ run.allow_incomplete_finalization
              => /\ \A i \in finalizationFailures("SCHEMA_INVALID") :
                       run.failures[i].message
                          # "Missing verification_run_completed event"
                 /\ \E i \in 1..Len(run.warnings) :
                       run.warnings[i].warning_code = "FINALIZATION_INCOMPLETE"

\* the check during which a warning of the code is emitted
emittedDuring(warning_code) ==
    CASE warning_code = "CLAIM_DISPUTED" -> "CHK_CLAIM_EVIDENCE_SUFFICIENCY"
      [] warning_code = "FINALIZATION_INCOMPLETE" ->
            "CHK_FINALIZATION_INTEGRITY"
      [] OTHER -> ""

\* the status the claim gives a check: by the failures attributed to it
\* and the warnings emitted during it
statusByEntries(check_id) ==
    IF \E i \in 1..Len(run.failures) :
          run.failures[i].verification_step = check_id
    THEN "fail"
    ELSE IF \E i \in 1..Len(run.warnings) :
               emittedDuring(run.warnings[i].warning_code) = check_id
    THEN "warning" ELSE "pass"

\* C34: in every report, each check has the status "fail" iff a failure
\* names it as verification_step, "warning" iff none does and a warning
\* was emitted during it, "pass" otherwise; the verdict is "fail" iff some
\* check has the status "fail"; every failure names one of the ten checks
C34_CheckStatusConsistency ==
    Reported =>
        /\ \A k \in 1..Len(run.checks) :
              run.checks[k].status = statusByEntries(run.checks[k].check_id)
        /\ run.verification_status = "fail"
              <=> \E k \in 1..Len(run.checks) : run.checks[k].status = "fail"
        /\ \A i \in 1..Len(run.failures) :
              \E k \in 1..Len(checkCatalog) :
                  run.failures[i].verification_step = checkCatalog[k]

\* a report with a check of each status: a disputed claim gave a warning,
\* the missing verification events a failure, and the other checks passed
C34_Witness ==
    /\ Reported
    /\ run.verification_status = "fail"
    /\ \E k \in 1..Len(run.checks) :
          /\ run.checks[k].check_id = "CHK_CLAIM_EVIDENCE_SUFFICIENCY"
          /\ run.checks[k].status = "warning"
    /\ \E k \in 1..Len(run.checks) :
          /\ run.checks[k].check_id = "CHK_FINALIZATION_INTEGRITY"
          /\ run.checks[k].status = "fail"
    /\ \E k \in 1..Len(run.checks) : run.checks[k].status = "pass"

\* the lines of the file after its first malformed line that are one event
LaterEventLines(file) ==
    LET lines == split(file)
    IN {j \in (FirstMalformed(lines) + 1)..Len(lines) : IsEventLine(lines[j])}

\* C35: when readEvents meets a malformed line that is followed by lines
\* holding well-formed events, it does not cut the file: each of those
\* later lines is still in the file, where it was
C35_InteriorLineNotTruncated ==
    [][(\E r \in BOOLEAN : ReadEvents(r)) =>
        \A j \in LaterEventLines(events) :
            /\ j <= Len(split(events'))
            /\ split(events')[j] = split(events)[j]
      ]_vars

\* a step of a writeArtifact call (not the substitution of a blob)
writeArtifactStep == edit' = edit

\* the blobs that were written: the files that are not being created
writtenBlobs == {blob \in blobs : blob.bytes # ""}

\* the calls so far were made one after another: no step of a
\* writeArtifact call changes a blob that was written, whatever its bytes
blobWriteOnceInSequence ==
    [][writeArtifactStep /\ ~calls'.overlapped
          => \A blob \in writtenBlobs : blob \in blobs']_vars

\* C36: no step of a writeArtifact call changes the bytes of a blob that
\* exists: the blob file is written only when there is no blob of the
\* hash, whatever bytes an existing blob holds, and the sidecar steps leave
\* every blob as it is
C36_BlobWriteOnce ==
    [][writeArtifactStep => \A blob \in writtenBlobs : blob \in blobs']_vars

\* no process is in appendEvent
ledgerQuiet == \A p \in Procs : pc[p] = "idle"

\* the event is in the file as a complete line of its own
completeLineOf(e) ==
    \E i \in 1..Len(split(events)) :
        /\ IsEventLine(split(events)[i])
        /\ split(events)[i][1].e = e

\* the last line of the file that is not empty is the text of one event
\* whose event_hash is the head of the persisted session
headIsLastLine ==
    LET lines == NonEmptyLines(events)
    IN /\ lines # <<>>
       /\ IsEventLine(lines[Len(lines)])
       /\ lines[Len(lines)][1].e.event_hash = session.head_event_hash

\* C38: readEvents calls with tail recovery that take no lock do not
\* damage an append in progress: when the appendEvent calls and the reads
\* have ended, every event whose append returned is in events.jsonl as a
\* complete line, and the head_event_hash of the session is the
\* event_hash of the last line of the file
C38_ReadersKeepAppend ==
    ledgerQuiet /\ committed # <<>> =>
        /\ \A n \in 1..Len(committed) : completeLineOf(committed[n])
        /\ headIsLastLine

\* the process died inside withTraceLock and its lockfile is there
staleLock(p) == lock = p /\ pc[p] = "crashed"

\* C39: a lockfile left by a process that died while it held the lock
\* does not stay for ever: at some later time the lockfile of that
\* process is gone, so that a later appendEvent on the trace can create
\* its own and succeed
C39_LockLivenessAfterCrash ==
    \A p \in Procs : staleLock(p) ~> lock # p

\* the verification_run_completed events of the stored trace
completedEvents ==
    LET evs == ParsedEvents
    IN {evs[i] : i \in {j \in 1..Len(evs) :
                           evs[j].event_type = "verification_run_completed"}}

\* the report files written under the report_id
reportsUnder(report_id) ==
    {report \in reports : report.report_id = report_id}

\* C40: once the CLI's verification run has returned, the
\* verification_status in the payload of the verification_run_completed
\* event is the verification_status of the final report written under the
\* report_id of that payload, and the status of the trace is "failed" when
\* that report is "fail" and "succeeded" otherwise
C40_CompletedEventMatchesReport ==
    audit.pc = "returned" =>
        \A e \in completedEvents :
            /\ reportsUnder(e.payload[1].report_id) # {}
            /\ \A report \in reportsUnder(e.payload[1].report_id) :
                  /\ e.payload[1].verification_status
                        = report.verification_status
                  /\ session.status
                        = (IF report.verification_status = "fail"
                           THEN "failed" ELSE "succeeded")
====
